---------------------------- MODULE Spec2Model ----------------------------
(***************************************************************************)
(* Stream-to-event reconstruction of oai-compatible-copilot:               *)
(*   - KimiToolStreamingParser          (src/src/kimiToolParser.ts)        *)
(*   - the index-keyed provider         (src/src/provider.ts)              *)
(*   - the coalescing, id-keyed provider (src/unnamed/part_001)            *)
(* Strings are TLA+ strings; JavaScript's 0-based substring/indexOf are    *)
(* expressed with SubSeq, Len and \o.                                      *)
(***************************************************************************)
EXTENDS Integers, Sequences, FiniteSets, TLC

VARIABLES
    parser,     \* the KimiToolStreamingParser instance (its private fields)
    kInput,     \* text the upstream has not delivered to the parser yet
    kFed,       \* text delivered so far (concatenation of the chunks)
    kOut,       \* StreamResults returned by processChunk calls, in order
    kFlushOut,  \* StreamResults returned by flush
    kSplit,     \* a section-begin sentinel arrived split over two or more chunks
    kPhase,     \* "feeding" | "flushed"
    lines,      \* the data lines the response stream has delivered so far, in order
    prov,       \* HuggingFaceChatModelProvider of src/src/provider.ts (per-stream fields)
    pSink,      \* parts reported to progress by the provider of src/src/provider.ts
    pStatus,    \* "reading" | "returned": its processStreamingResponse
    coal,       \* HuggingFaceChatModelProvider of src/unnamed/part_001 (per-stream fields)
    cSink,      \* parts reported to progress by the provider of src/unnamed/part_001
    cStatus,    \* "reading" | "returned": its processStreamingResponse
    openaiMessages  \* the messages of the next request after the signature decoding

kvars == <<parser, kInput, kFed, kOut, kFlushOut, kSplit, kPhase>>
pvars == <<lines, prov, pSink, pStatus, coal, cSink, cStatus, openaiMessages>>
vars == <<parser, kInput, kFed, kOut, kFlushOut, kSplit, kPhase,
          lines, prov, pSink, pStatus, coal, cSink, cStatus, openaiMessages>>

----------------------------------------------------------------------------
(* JavaScript string primitives *)

Min(a, b) == IF a < b THEN a ELSE b

\* s.substring(a, b), 0-based, end exclusive
substring(s, a, b) == SubSeq(s, a + 1, b)

\* s.substring(a)
substringFrom(s, a) == SubSeq(s, a + 1, Len(s))

RECURSIVE indexOfFrom(_, _, _)
indexOfFrom(s, t, i) ==
    IF i + Len(t) > Len(s) THEN -1
    ELSE IF substring(s, i, i + Len(t)) = t THEN i
    ELSE indexOfFrom(s, t, i + 1)

\* s.indexOf(t): first 0-based position of t in s, or -1
indexOf(s, t) == indexOfFrom(s, t, 0)

WhiteSpace == {" ", "\n", "\t"}

RECURSIVE trimStart(_)
trimStart(s) ==
    IF Len(s) > 0 /\ SubSeq(s, 1, 1) \in WhiteSpace THEN trimStart(substringFrom(s, 1)) ELSE s

RECURSIVE trimEnd(_)
trimEnd(s) ==
    IF Len(s) > 0 /\ SubSeq(s, Len(s), Len(s)) \in WhiteSpace
    THEN trimEnd(substring(s, 0, Len(s) - 1)) ELSE s

\* s.trim()
trim(s) == trimEnd(trimStart(s))

----------------------------------------------------------------------------
(* KimiToolStreamingParser *)

SECTION_BEGIN == "<|tool_calls_section_begin|>"
CALL_BEGIN    == "<|tool_call_begin|>"
ARG_BEGIN     == "<|tool_call_argument_begin|>"
CALL_END      == "<|tool_call_end|>"

ThinkingResult(c) == [type |-> "thinking", content |-> c]
ToolResult(n, a)  == [type |-> "tool", name |-> n, arguments |-> a]

RECURSIVE findPartialMatchFrom(_, _, _)
findPartialMatchFrom(text, token, i) ==
    IF i <= 0 THEN 0
    ELSE IF substringFrom(text, Len(text) - i) = substring(token, 0, i) THEN i
    ELSE findPartialMatchFrom(text, token, i - 1)

\* mutant: no suffix is ever recognised as a partial token
findPartialMatch_None(text, token) == 0

\* mutant: the whole token counts as a partial match
findPartialMatch_WholeToken(text, token) ==
    findPartialMatchFrom(text, token, Min(Len(text), Len(token)))

\* length of the longest suffix of text that is a prefix of token, at most Len(token)-1
findPartialMatch(text, token) ==
    findPartialMatchFrom(text, token, Min(Len(text), Len(token) - 1))

ParserInit ==
    [buffer |-> "", inToolSection |-> FALSE, inToolCall |-> FALSE, inArguments |-> FALSE,
     currentToolName |-> "", currentToolArgs |-> ""]

\* mutant: a partial sentinel at the end of the buffer is not withheld
ScanStep_NoRetention(p, results) ==
    LET beginIndex == indexOf(p.buffer, SECTION_BEGIN)
    IN  IF beginIndex # -1 THEN
            [p |-> [p EXCEPT !.buffer = substringFrom(p.buffer, beginIndex + Len(SECTION_BEGIN)),
                             !.inToolSection = TRUE],
             results |-> IF beginIndex > 0
                         THEN Append(results, ThinkingResult(substring(p.buffer, 0, beginIndex)))
                         ELSE results,
             processedSomething |-> TRUE]
        ELSE
            [p |-> [p EXCEPT !.buffer = ""],
             results |-> Append(results, ThinkingResult(p.buffer)),
             processedSomething |-> TRUE]

\* branch of the loop body taken while !inToolSection
ScanStep(p, results) ==
    LET beginIndex == indexOf(p.buffer, SECTION_BEGIN)
        potentialSuffix == findPartialMatch(p.buffer, SECTION_BEGIN)
        safeLength == Len(p.buffer) - potentialSuffix
    IN  IF beginIndex # -1 THEN
            [p |-> [p EXCEPT !.buffer = substringFrom(p.buffer, beginIndex + Len(SECTION_BEGIN)),
                             !.inToolSection = TRUE],
             results |-> IF beginIndex > 0
                         THEN Append(results, ThinkingResult(substring(p.buffer, 0, beginIndex)))
                         ELSE results,
             processedSomething |-> TRUE]
        ELSE IF potentialSuffix > 0 THEN
            IF safeLength > 0
            THEN [p |-> [p EXCEPT !.buffer = substringFrom(p.buffer, safeLength)],
                  results |-> Append(results, ThinkingResult(substring(p.buffer, 0, safeLength))),
                  processedSomething |-> FALSE]
            ELSE [p |-> p, results |-> results, processedSomething |-> FALSE]
        ELSE
            [p |-> [p EXCEPT !.buffer = ""],
             results |-> Append(results, ThinkingResult(p.buffer)),
             processedSomething |-> TRUE]

\* mutant: text in the section that cannot begin a call ends the section
SectionStep_LeavesSection(p, results) ==
    LET callIndex == indexOf(p.buffer, CALL_BEGIN)
    IN  IF callIndex # -1 THEN
            [p |-> [p EXCEPT !.buffer = substringFrom(p.buffer, callIndex + Len(CALL_BEGIN)),
                             !.inToolCall = TRUE,
                             !.currentToolName = "",
                             !.currentToolArgs = ""],
             results |-> results, processedSomething |-> TRUE]
        ELSE IF findPartialMatch(p.buffer, CALL_BEGIN) = 0 THEN
            [p |-> [p EXCEPT !.inToolSection = FALSE],
             results |-> results, processedSomething |-> TRUE]
        ELSE [p |-> p, results |-> results, processedSomething |-> FALSE]

\* branch taken while inToolSection && !inToolCall
SectionStep(p, results) ==
    LET callIndex == indexOf(p.buffer, CALL_BEGIN)
    IN  IF callIndex # -1 THEN
            [p |-> [p EXCEPT !.buffer = substringFrom(p.buffer, callIndex + Len(CALL_BEGIN)),
                             !.inToolCall = TRUE,
                             !.currentToolName = "",
                             !.currentToolArgs = ""],
             results |-> results, processedSomething |-> TRUE]
        ELSE [p |-> p, results |-> results, processedSomething |-> FALSE]

\* mutant: the name found before the argument-begin sentinel replaces the name
\* accumulated from earlier chunks
NameStep_Replace(p, results) ==
    LET argIndex == indexOf(p.buffer, ARG_BEGIN)
        potentialSuffix == findPartialMatch(p.buffer, ARG_BEGIN)
    IN  IF argIndex # -1 THEN
            [p |-> [p EXCEPT !.currentToolName = substring(p.buffer, 0, argIndex),
                             !.buffer = substringFrom(p.buffer, argIndex + Len(ARG_BEGIN)),
                             !.inArguments = TRUE],
             results |-> results, processedSomething |-> TRUE]
        ELSE IF potentialSuffix > 0 THEN
            [p |-> [p EXCEPT !.currentToolName =
                                 @ \o substring(p.buffer, 0, Len(p.buffer) - potentialSuffix),
                             !.buffer = substringFrom(p.buffer, Len(p.buffer) - potentialSuffix)],
             results |-> results, processedSomething |-> FALSE]
        ELSE
            [p |-> [p EXCEPT !.currentToolName = @ \o p.buffer, !.buffer = ""],
             results |-> results, processedSomething |-> FALSE]

\* branch taken while inToolCall && !inArguments
NameStep(p, results) ==
    LET argIndex == indexOf(p.buffer, ARG_BEGIN)
        potentialSuffix == findPartialMatch(p.buffer, ARG_BEGIN)
    IN  IF argIndex # -1 THEN
            [p |-> [p EXCEPT !.currentToolName = @ \o substring(p.buffer, 0, argIndex),
                             !.buffer = substringFrom(p.buffer, argIndex + Len(ARG_BEGIN)),
                             !.inArguments = TRUE],
             results |-> results, processedSomething |-> TRUE]
        ELSE IF potentialSuffix > 0 THEN
            [p |-> [p EXCEPT !.currentToolName =
                                 @ \o substring(p.buffer, 0, Len(p.buffer) - potentialSuffix),
                             !.buffer = substringFrom(p.buffer, Len(p.buffer) - potentialSuffix)],
             results |-> results, processedSomething |-> FALSE]
        ELSE
            [p |-> [p EXCEPT !.currentToolName = @ \o p.buffer, !.buffer = ""],
             results |-> results, processedSomething |-> FALSE]

\* mutant: after the call-end sentinel the parser resets name and arguments and
\* captures the next name at once
ArgsStep_ReturnsToName(p, results) ==
    LET endIndex == indexOf(p.buffer, CALL_END)
        potentialSuffix == findPartialMatch(p.buffer, CALL_END)
    IN  IF endIndex # -1 THEN
            LET args == p.currentToolArgs \o substring(p.buffer, 0, endIndex)
            IN  [p |-> [p EXCEPT !.currentToolArgs = "",
                                 !.currentToolName = "",
                                 !.buffer = substringFrom(p.buffer, endIndex + Len(CALL_END)),
                                 !.inArguments = FALSE,
                                 !.inToolCall = TRUE],
                 results |-> Append(results, ToolResult(trim(p.currentToolName), trim(args))),
                 processedSomething |-> TRUE]
        ELSE IF potentialSuffix > 0 THEN
            [p |-> [p EXCEPT !.currentToolArgs =
                                 @ \o substring(p.buffer, 0, Len(p.buffer) - potentialSuffix),
                             !.buffer = substringFrom(p.buffer, Len(p.buffer) - potentialSuffix)],
             results |-> results, processedSomething |-> FALSE]
        ELSE
            [p |-> [p EXCEPT !.currentToolArgs = @ \o p.buffer, !.buffer = ""],
             results |-> results, processedSomething |-> FALSE]

\* branch taken while inToolCall && inArguments
ArgsStep(p, results) ==
    LET endIndex == indexOf(p.buffer, CALL_END)
        potentialSuffix == findPartialMatch(p.buffer, CALL_END)
    IN  IF endIndex # -1 THEN
            LET args == p.currentToolArgs \o substring(p.buffer, 0, endIndex)
            IN  [p |-> [p EXCEPT !.currentToolArgs = args,
                                 !.buffer = substringFrom(p.buffer, endIndex + Len(CALL_END)),
                                 !.inArguments = FALSE,
                                 !.inToolCall = FALSE],
                 results |-> Append(results, ToolResult(trim(p.currentToolName), trim(args))),
                 processedSomething |-> TRUE]
        ELSE IF potentialSuffix > 0 THEN
            [p |-> [p EXCEPT !.currentToolArgs =
                                 @ \o substring(p.buffer, 0, Len(p.buffer) - potentialSuffix),
                             !.buffer = substringFrom(p.buffer, Len(p.buffer) - potentialSuffix)],
             results |-> results, processedSomething |-> FALSE]
        ELSE
            [p |-> [p EXCEPT !.currentToolArgs = @ \o p.buffer, !.buffer = ""],
             results |-> results, processedSomething |-> FALSE]

\* one iteration of the while loop of processChunk
LoopBody(p, results) ==
    IF ~p.inToolSection THEN ScanStep(p, results)
    ELSE IF ~p.inToolCall THEN SectionStep(p, results)
    ELSE IF ~p.inArguments THEN NameStep(p, results)
    ELSE ArgsStep(p, results)

RECURSIVE processLoop(_, _, _)
processLoop(p, results, processedSomething) ==
    IF processedSomething /\ Len(p.buffer) > 0
    THEN LET r == LoopBody(p, results) IN processLoop(r.p, r.results, r.processedSomething)
    ELSE [p |-> p, results |-> results]

\* processChunk(chunk): the parser after the call and the returned results
processChunk(p, chunk) ==
    processLoop([p EXCEPT !.buffer = @ \o chunk], <<>>, TRUE)

\* mutant: the leftover buffer is cleared without being returned
flush_Drop(p) == [p |-> [p EXCEPT !.buffer = ""], results |-> <<>>]

\* mutant: at the end of the stream a call under way is emitted as it stands
flush_EmitsIncompleteCall(p) ==
    IF p.inToolCall
    THEN [p |-> [p EXCEPT !.buffer = ""],
          results |-> <<ToolResult(trim(p.currentToolName), trim(p.currentToolArgs))>>]
    ELSE IF Len(p.buffer) > 0
    THEN [p |-> [p EXCEPT !.buffer = ""], results |-> <<ThinkingResult(p.buffer)>>]
    ELSE [p |-> p, results |-> <<>>]

\* flush(): the parser after the call and the returned results
flush(p) ==
    IF Len(p.buffer) > 0
    THEN [p |-> [p EXCEPT !.buffer = ""], results |-> <<ThinkingResult(p.buffer)>>]
    ELSE [p |-> p, results |-> <<>>]

----------------------------------------------------------------------------
(* Reading a result list "once adjacent content events are concatenated" *)

AppendMerged(out, e) ==
    IF e.type = "thinking" /\ Len(out) > 0 /\ out[Len(out)].type = "thinking"
    THEN [out EXCEPT ![Len(out)] = ThinkingResult(@.content \o e.content)]
    ELSE Append(out, e)

RECURSIVE Merged(_, _)
Merged(out, results) ==
    IF results = <<>> THEN out ELSE Merged(AppendMerged(out, Head(results)), Tail(results))

RECURSIVE ContentOf(_)
ContentOf(results) ==
    IF results = <<>> THEN ""
    ELSE (IF Head(results).type = "thinking" THEN Head(results).content ELSE "")
         \o ContentOf(Tail(results))

----------------------------------------------------------------------------
(* Inputs of the sentinel parser: texts assembled from a few pieces *)

MaxPieces == 2
MaxCalls == 2

Pieces == {"a", " ", "<|tool_call", SECTION_BEGIN, CALL_BEGIN, ARG_BEGIN, CALL_END}

RECURSIVE Concat(_)
Concat(ps) == IF ps = <<>> THEN "" ELSE Head(ps) \o Concat(Tail(ps))

\* any pieces in any order: partial sentinels, sentinels out of place
FreeTexts == {Concat(ps) : ps \in UNION {[1..n -> Pieces] : n \in 0..MaxPieces}}

WellFormedCall(name, arguments) == CALL_BEGIN \o name \o ARG_BEGIN \o arguments \o CALL_END

CallName(i) == IF i % 2 = 1 THEN "f" ELSE " g "
CallArgs(i) == IF i % 2 = 1 THEN "{}" ELSE " x\n"

RECURSIVE Calls(_, _)
Calls(k, sep) == IF k = 0 THEN "" ELSE Calls(k - 1, sep) \o WellFormedCall(CallName(k), CallArgs(k)) \o sep

\* text, the section-begin sentinel, then k calls each followed by sep
SectionTexts ==
    {pre \o SECTION_BEGIN \o Calls(k, sep) :
        pre \in {"", "a<|"}, k \in 1..MaxCalls, sep \in {"", "\n"}}

\* a section whose last call never reaches its call-end sentinel
IncompleteTexts ==
    {SECTION_BEGIN \o CALL_BEGIN \o t :
        t \in {"f", "f<|tool_call", "f" \o ARG_BEGIN \o "{\"a\"",
               "f" \o ARG_BEGIN \o "{}<|tool_call_e"}}
    \cup {"a<|" \o SECTION_BEGIN \o Calls(1, "") \o CALL_BEGIN \o " g"}

KimiTexts == FreeTexts \cup SectionTexts \cup IncompleteTexts

KInit ==
    /\ parser = ParserInit
    /\ kInput \in KimiTexts
    /\ kFed = ""
    /\ kOut = <<>>
    /\ kFlushOut = <<>>
    /\ kSplit = FALSE
    /\ kPhase = "feeding"

\* the chunk completes a section-begin sentinel whose first characters were retained
\* in the buffer by an earlier processChunk call
SplitSentinel(p, chunk) ==
    /\ ~p.inToolSection
    /\ Len(p.buffer) > 0
    /\ indexOf(p.buffer \o chunk, SECTION_BEGIN) # -1
    /\ indexOf(p.buffer \o chunk, SECTION_BEGIN) < Len(p.buffer)

\* the upstream delivers the next n characters as one chunk
KProcessChunk ==
    /\ kPhase = "feeding"
    /\ \E n \in 0..Len(kInput) :
          LET chunk == substring(kInput, 0, n)
              r == processChunk(parser, chunk)
          IN  /\ parser' = r.p
              /\ kOut' = Merged(kOut, r.results)
              /\ kFed' = kFed \o chunk
              /\ kInput' = substringFrom(kInput, n)
              /\ kSplit' = (kSplit \/ SplitSentinel(parser, chunk))
    /\ UNCHANGED <<kFlushOut, kPhase, pvars>>

\* the stream ends: flush()
KFlush ==
    /\ kPhase = "feeding"
    /\ kInput = ""
    /\ LET r == flush(parser)
       IN  /\ parser' = r.p
           /\ kFlushOut' = r.results
    /\ kPhase' = "flushed"
    /\ UNCHANGED <<kInput, kFed, kOut, kSplit, pvars>>

KNext == KProcessChunk \/ KFlush


----------------------------------------------------------------------------
(* Claims about KimiToolStreamingParser, checked under SpecKimi *)

\* what the parser returns when the whole text arrives as one chunk and is then flushed
OneChunkOutput(text) ==
    LET r == processChunk(ParserInit, text)
    IN  Merged(Merged(<<>>, r.results), flush(r.p).results)

\* what the chunking under way returns if the stream ends now
OutputIfFlushedNow ==
    IF kPhase = "flushed" THEN Merged(kOut, kFlushOut) ELSE Merged(kOut, flush(parser).results)

\* C1: chunking invariance. However the text delivered so far was cut into chunks,
\* the results of the processChunk calls followed by those of flush are, once adjacent
\* content events are concatenated, the results of delivering the same text as a
\* single chunk: same content, same tool calls, same relative order.
C1_ChunkingInvariant == OutputIfFlushedNow = OneChunkOutput(kFed)

HasTool(out) == \E i \in 1..Len(out) : out[i].type = "tool"

\* C1 witness: a stream whose section-begin sentinel was split over chunks has ended
\* after emitting content and a tool call.
C1_Witness ==
    /\ kPhase = "flushed"
    /\ kSplit
    /\ HasTool(kOut)
    /\ ContentOf(kOut) # ""

\* C4: once the delivered text contains the section-begin sentinel, the content
\* events returned by processChunk concatenate to exactly the text before the
\* sentinel's first occurrence, so no character of the sentinel is in a content event.
C4_ContentStopsAtSentinel ==
    indexOf(kFed, SECTION_BEGIN) # -1
        => ContentOf(kOut) = substring(kFed, 0, indexOf(kFed, SECTION_BEGIN))

\* C4 witness: the sentinel arrived split over chunks after some text.
C4_Witness ==
    /\ kSplit
    /\ parser.inToolSection
    /\ indexOf(kFed, SECTION_BEGIN) > 0
    /\ ContentOf(kOut) = substring(kFed, 0, indexOf(kFed, SECTION_BEGIN))

\* C9: for a text without the section-begin sentinel, the content returned by the
\* processChunk calls followed by the content returned by flush is the text itself,
\* and nothing else is returned.
C9_NoSentinelLossless ==
    (kPhase = "flushed" /\ indexOf(kFed, SECTION_BEGIN) = -1)
        => /\ ContentOf(kOut) \o ContentOf(kFlushOut) = kFed
           /\ ~HasTool(kOut)
           /\ ~HasTool(kFlushOut)

\* C9 witness: a text ending in a partial sentinel was withheld by processChunk and
\* released by flush.
C9_Witness ==
    /\ kPhase = "flushed"
    /\ indexOf(kFed, SECTION_BEGIN) = -1
    /\ ContentOf(kOut) # ""
    /\ ContentOf(kFlushOut) # ""

----------------------------------------------------------------------------
(* Values shared by the two providers *)

Undefined == "undefined"    \* an absent field (undefined or null)
NoIndex == -1               \* an absent numeric index

\* s.charAt(i), 0-based; "" past the end
charAt(s, i) == IF 0 <= i /\ i < Len(s) THEN SubSeq(s, i + 1, i + 1) ELSE ""

\* an insertion-ordered Map as the sequence of its entries
MapHas(m, k) == \E i \in 1..Len(m) : m[i].key = k
MapGet(m, k) == m[CHOOSE i \in 1..Len(m) : m[i].key = k].val
MapSet(m, k, v) ==
    IF MapHas(m, k)
    THEN [i \in 1..Len(m) |-> IF m[i].key = k THEN [key |-> k, val |-> v] ELSE m[i]]
    ELSE Append(m, [key |-> k, val |-> v])
MapDelete(m, k) == SelectSeq(m, LAMBDA e : e.key # k)
MapKeys(m) == [i \in 1..Len(m) |-> m[i].key]

(* tryParseJSONObject: JSON.parse of the text, accepted when the value is an object.
   The grammar covers objects, strings without escapes and unsigned integers; the
   value is written as JSON.stringify writes it (no insignificant white space). *)

Digits == {"0", "1", "2", "3", "4", "5", "6", "7", "8", "9"}

RECURSIVE skipWs(_, _)
skipWs(s, i) == IF i < Len(s) /\ charAt(s, i) \in WhiteSpace THEN skipWs(s, i + 1) ELSE i

\* position after the closing quote of the string whose body starts at i, or -1
RECURSIVE stringEnd(_, _)
stringEnd(s, i) ==
    IF i >= Len(s) \/ charAt(s, i) = "\\" THEN -1
    ELSE IF charAt(s, i) = "\"" THEN i + 1
    ELSE stringEnd(s, i + 1)

parseString(s, i) == IF charAt(s, i) = "\"" THEN stringEnd(s, i + 1) ELSE -1

RECURSIVE numberEnd(_, _)
numberEnd(s, i) == IF charAt(s, i) \in Digits THEN numberEnd(s, i + 1) ELSE i

RECURSIVE parseValue(_, _)
RECURSIVE parseMembers(_, _)

\* s[i] is "{": position after the matching "}", or -1
parseObject(s, i) ==
    LET j == skipWs(s, i + 1)
    IN  IF charAt(s, j) = "}" THEN j + 1 ELSE parseMembers(s, j)

parseValue(s, i) ==
    IF charAt(s, i) = "{" THEN parseObject(s, i)
    ELSE IF charAt(s, i) = "\"" THEN parseString(s, i)
    ELSE IF charAt(s, i) \in Digits THEN numberEnd(s, i)
    ELSE -1

\* a member list starting at i: position after the object's "}", or -1
parseMembers(s, i) ==
    LET k == parseString(s, i)
        c == skipWs(s, k)
        v == parseValue(s, skipWs(s, c + 1))
        e == skipWs(s, v)
    IN  IF k = -1 \/ charAt(s, c) # ":" THEN -1
        ELSE IF v = -1 THEN -1
        ELSE IF charAt(s, e) = "}" THEN e + 1
        ELSE IF charAt(s, e) = "," THEN parseMembers(s, skipWs(s, e + 1))
        ELSE -1

\* the text is one JSON object, white space around it allowed
isJSONObject(text) ==
    LET i == skipWs(text, 0)
        e == parseObject(text, i)
    IN  /\ charAt(text, i) = "{"
        /\ e # -1
        /\ skipWs(text, e) = Len(text)

\* JSON.stringify(JSON.parse(text)) of an accepted text: white space outside strings removed
RECURSIVE stringifyFrom(_, _, _)
stringifyFrom(s, i, inString) ==
    IF i >= Len(s) THEN ""
    ELSE LET c == charAt(s, i)
         IN  IF c = "\"" THEN c \o stringifyFrom(s, i + 1, ~inString)
             ELSE IF ~inString /\ c \in WhiteSpace THEN stringifyFrom(s, i + 1, inString)
             ELSE c \o stringifyFrom(s, i + 1, inString)

tryParseJSONObject(text) ==
    IF text # "" /\ isJSONObject(text)
    THEN [ok |-> TRUE, value |-> stringifyFrom(text, 0, FALSE)]
    ELSE [ok |-> FALSE, value |-> Undefined]

(* The parts a provider reports. site names the statement that reported the part, key
   the tool-call buffer it came from and text that buffer's argument text; none of
   the three is visible to the host. *)

NoMetadata ==
    [present |-> FALSE, format |-> Undefined, type |-> Undefined, index |-> NoIndex,
     signature |-> Undefined, data |-> Undefined]

TextPart(value, site) == [kind |-> "text", value |-> value, site |-> site]

ThinkingPart(value, id, metadata, site) ==
    [kind |-> "thinking", value |-> value, id |-> id, metadata |-> metadata, site |-> site]

ToolCallPart(callId, name, input, key, text, site) ==
    [kind |-> "tool", callId |-> callId, name |-> name, input |-> input, key |-> key,
     text |-> text, site |-> site]

\* mutant: once a call of the sink has failed, no further part is offered to it
Report_StopsAfterFailure(m, part) ==
    IF m.p.sinkErrorsLogged > 0 THEN m
    ELSE [m EXCEPT !.sink = Append(@, part),
                   !.p.sinkErrorsLogged =
                       IF Len(m.sink) + 1 \in m.p.sinkThrows THEN @ + 1 ELSE @]

\* trackingProgress.report(part): the part is offered to the sink, progress.report;
\* if that call throws (the calls numbered in sinkThrows do), the error is caught
\* and logged
Report(m, part) ==
    [m EXCEPT !.sink = Append(@, part),
              !.p.sinkErrorsLogged = IF Len(m.sink) + 1 \in m.p.sinkThrows THEN @ + 1 ELSE @]

\* generateThinkingId(): an id no earlier call returned
GenerateThinkingId(m) == [m EXCEPT !.p.idsGenerated = @ + 1]
ThinkingIdOf(m) == m.p.idsGenerated

\* if (!this._currentThinkingId) this._currentThinkingId = this.generateThinkingId();
EnsureThinkingId(m) ==
    IF m.p._currentThinkingId = 0
    THEN LET g == GenerateThinkingId(m) IN [g EXCEPT !.p._currentThinkingId = ThinkingIdOf(g)]
    ELSE m

\* `call_${Math.random()...}`: an id no upstream id equals
RandomCallId(m) == "call_#" \o ToString(m.p.callIdsGenerated + 1)

\* details.sort((a, b) => (a.index ?? 0) - (b.index ?? 0)), a stable sort
SortKey(detail) == IF detail.index = NoIndex THEN 0 ELSE detail.index

RECURSIVE InsertSorted(_, _)
InsertSorted(sorted, detail) ==
    IF sorted = <<>> THEN <<detail>>
    ELSE IF SortKey(sorted[Len(sorted)]) <= SortKey(detail) THEN Append(sorted, detail)
    ELSE Append(InsertSorted(SubSeq(sorted, 1, Len(sorted) - 1), detail), sorted[Len(sorted)])

RECURSIVE SortDetails(_)
SortDetails(details) ==
    IF details = <<>> THEN <<>>
    ELSE InsertSorted(SortDetails(SubSeq(details, 1, Len(details) - 1)), details[Len(details)])

\* JSON.stringify(detail) of a detail of a type the provider does not know
StringifyDetail(detail) == "{\"type\":\"" \o detail.type \o "\"}"

THINK_START == "<think>"
THINK_END == "</think>"

----------------------------------------------------------------------------
(* HuggingFaceChatModelProvider of src/src/provider.ts: tool calls keyed by index.
   A machine m is [p |-> the provider's fields, sink |-> the parts reported]. *)

ProvInit ==
    [_toolCallBuffers |-> <<>>,
     _completedToolCallIndices |-> {},
     _hasEmittedAssistantText |-> FALSE,
     _emittedBeginToolCallsHint |-> FALSE,
     _textToolActive |-> Undefined,
     _emittedTextToolCallKeys |-> {},
     _emittedTextToolCallIds |-> {},
     _xmlThinkActive |-> FALSE,
     _xmlThinkDetectionAttempted |-> FALSE,
     _currentThinkingId |-> 0,
     _currentReasoningSignature |-> Undefined,
     _currentResponseReasoningDetails |-> <<>>,
     _reasoningDetailsMap |-> <<>>,
     idsGenerated |-> 0,
     callIdsGenerated |-> 0,
     sinkThrows |-> {},
     sinkErrorsLogged |-> 0,
     calls |-> 1]

\* the merge of a detail into _currentResponseReasoningDetails
P_mergeDetail(collected, detail) ==
    IF \E i \in 1..Len(collected) : collected[i].index = detail.index
    THEN LET existingIdx == CHOOSE i \in 1..Len(collected) :
                                /\ collected[i].index = detail.index
                                /\ \A j \in 1..(i - 1) : collected[j].index # detail.index
             existing == collected[existingIdx]
         IN  IF existing.type = "reasoning.text" /\ detail.type = "reasoning.text"
             THEN [collected EXCEPT ![existingIdx] =
                      [existing EXCEPT !.text = @ \o detail.text,
                                       !.signature = IF detail.signature \notin {Undefined, ""}
                                                     THEN detail.signature ELSE @]]
             ELSE collected
    ELSE Append(collected, detail)

P_extractedText(detail) ==
    IF detail.type = "reasoning.summary" THEN detail.text
    ELSE IF detail.type = "reasoning.text" THEN detail.text
    ELSE IF detail.type = "reasoning.encrypted" THEN "[REDACTED]"
    ELSE StringifyDetail(detail)

P_metadata(detail) ==
    [present |-> TRUE, format |-> detail.format, type |-> detail.type, index |-> detail.index,
     signature |-> IF detail.type = "reasoning.text" /\ detail.signature \notin {Undefined, ""}
                   THEN detail.signature ELSE Undefined,
     data |-> IF detail.type = "reasoning.encrypted" /\ detail.data \notin {Undefined, ""}
              THEN detail.data ELSE Undefined]

\* body of the loop over sortedDetails
P_processDetail(m, detail) ==
    LET m1 == [m EXCEPT !.p._currentResponseReasoningDetails = P_mergeDetail(@, detail),
                        !.p._currentReasoningSignature =
                            IF detail.type = "reasoning.text"
                               /\ detail.signature \notin {Undefined, ""}
                            THEN detail.signature ELSE @]
        m2 == EnsureThinkingId(m1)
    IN  IF P_extractedText(detail) # ""
        THEN Report(m2, ThinkingPart(P_extractedText(detail), m2.p._currentThinkingId,
                                     P_metadata(detail), "reasoning_details"))
        ELSE m1

RECURSIVE P_processDetails(_, _)
P_processDetails(m, details) ==
    IF details = <<>> THEN m
    ELSE P_processDetails(P_processDetail(m, Head(details)), Tail(details))

\* the legacy thinking / reasoning_content field, a string
P_processLegacyThinking(m, text) ==
    IF text \notin {Undefined, ""}
    THEN LET m1 == EnsureThinkingId(m)
         IN  Report(m1, ThinkingPart(text, m1.p._currentThinkingId, NoMetadata, "thinking"))
    ELSE m

\* "Process thinking content": the details when there are any, else the legacy field
P_processThinking(m, delta) ==
    IF Len(delta.reasoning_details) > 0
    THEN P_processDetails(m, SortDetails(delta.reasoning_details))
    ELSE P_processLegacyThinking(m, delta.thinking)

\* the while loop of processXmlThinkBlocks over data
RECURSIVE P_xmlLoop(_, _, _)
P_xmlLoop(m, data, emittedAny) ==
    IF Len(data) = 0 THEN [m |-> m, emittedAny |-> emittedAny]
    ELSE IF ~m.p._xmlThinkActive THEN
        LET startIdx == indexOf(data, THINK_START)
        IN  IF startIdx = -1
            THEN [m |-> [m EXCEPT !.p._xmlThinkDetectionAttempted = TRUE],
                  emittedAny |-> emittedAny]
            ELSE LET g == GenerateThinkingId(m)
                 IN  P_xmlLoop([g EXCEPT !.p._xmlThinkActive = TRUE,
                                         !.p._currentThinkingId = ThinkingIdOf(g)],
                               substringFrom(data, startIdx + Len(THINK_START)), emittedAny)
    ELSE
        LET endIdx == indexOf(data, THINK_END)
        IN  IF endIdx = -1
            THEN IF trim(data) # ""
                 THEN [m |-> Report(m, ThinkingPart(trim(data), m.p._currentThinkingId,
                                                    NoMetadata, "processXmlThinkBlocks")),
                       emittedAny |-> TRUE]
                 ELSE [m |-> m, emittedAny |-> emittedAny]
            ELSE LET thinkContent == substring(data, 0, endIdx)
                     m1 == IF thinkContent # ""
                           THEN Report(m, ThinkingPart(thinkContent, m.p._currentThinkingId,
                                                       NoMetadata, "processXmlThinkBlocks"))
                           ELSE m
                 IN  P_xmlLoop([m1 EXCEPT !.p._xmlThinkActive = FALSE,
                                          !.p._currentThinkingId = 0],
                               substringFrom(data, endIdx + Len(THINK_END)),
                               emittedAny \/ thinkContent # "")

P_processXmlThinkBlocks(m, input) ==
    IF m.p._xmlThinkDetectionAttempted /\ ~m.p._xmlThinkActive
    THEN [m |-> m, emittedAny |-> FALSE]
    ELSE P_xmlLoop(m, input, FALSE)

\* mutant: input that is only white space is not reported
P_processTextContent_SkipsBlank(m, input) ==
    IF Len(trim(input)) > 0
    THEN [m |-> Report(m, TextPart(input, "processTextContent")), emittedText |-> TRUE]
    ELSE [m |-> m, emittedText |-> FALSE]

\* processTextContent: the input reported as one text part
P_processTextContent(m, input) ==
    IF Len(input) > 0
    THEN [m |-> Report(m, TextPart(input, "processTextContent")), emittedText |-> TRUE]
    ELSE [m |-> m, emittedText |-> FALSE]

\* "Process Text Content"
P_processContent(m, delta) ==
    IF delta.content = "" THEN m
    ELSE LET xmlRes == P_processXmlThinkBlocks(m, delta.content)
             m1 == xmlRes.m
             hasVisibleContent == Len(trim(delta.content)) > 0
             m2 == IF hasVisibleContent /\ m1.p._currentThinkingId # 0
                   THEN [Report(m1, ThinkingPart("", m1.p._currentThinkingId, NoMetadata, "close"))
                            EXCEPT !.p._currentThinkingId = 0]
                   ELSE m1
             res == P_processTextContent(m2, delta.content)
         IN  IF xmlRes.emittedAny THEN m1
             ELSE IF res.emittedText
                  THEN [res.m EXCEPT !.p._hasEmittedAssistantText = TRUE]
                  ELSE res.m

\* finalId: the signature encoded into the id
P_finalId(id, buf) ==
    IF buf.thoughtSignature \notin {Undefined, ""}
    THEN id \o "::gemini_sig::" \o buf.thoughtSignature
    ELSE id

P_tryEmitBufferedToolCall(m, index) ==
    IF ~MapHas(m.p._toolCallBuffers, index) THEN m
    ELSE LET buf == MapGet(m.p._toolCallBuffers, index)
             canParse == tryParseJSONObject(buf.args)
             id == IF buf.id # Undefined THEN buf.id ELSE RandomCallId(m)
             m1 == IF buf.id # Undefined THEN m ELSE [m EXCEPT !.p.callIdsGenerated = @ + 1]
             m2 == [m1 EXCEPT !.p._emittedTextToolCallKeys =
                                  @ \cup {buf.name \o ":" \o canParse.value}]
             m3 == Report(m2, ToolCallPart(P_finalId(id, buf), buf.name, canParse.value,
                                           index, buf.args, "tryEmitBufferedToolCall"))
         IN  IF buf.name \in {Undefined, ""} THEN m
             ELSE IF ~canParse.ok THEN m
             ELSE [m3 EXCEPT !.p._toolCallBuffers = MapDelete(@, index),
                             !.p._completedToolCallIndices = @ \cup {index}]

NewBuffer == [id |-> Undefined, name |-> Undefined, args |-> "", thoughtSignature |-> Undefined]

\* mutant: an argument piece replaces the accumulated text
P_processToolCallFragment_Replace(m, tc) ==
    LET idx == IF tc.index = NoIndex THEN 0 ELSE tc.index
        buf0 == IF MapHas(m.p._toolCallBuffers, idx) THEN MapGet(m.p._toolCallBuffers, idx)
                ELSE NewBuffer
        buf == [buf0 EXCEPT
                   !.id = IF tc.id \notin {Undefined, ""} THEN tc.id ELSE @,
                   !.name = IF tc.name \notin {Undefined, ""} THEN tc.name ELSE @,
                   !.args = IF tc.arguments # Undefined THEN tc.arguments ELSE @]
    IN  IF idx \in m.p._completedToolCallIndices THEN m
        ELSE P_tryEmitBufferedToolCall(
                 [m EXCEPT !.p._toolCallBuffers = MapSet(@, idx, buf)], idx)

\* mutant: the completed set is not consulted
P_processToolCallFragment_NoCompletedCheck(m, tc) ==
    LET idx == IF tc.index = NoIndex THEN 0 ELSE tc.index
        buf0 == IF MapHas(m.p._toolCallBuffers, idx) THEN MapGet(m.p._toolCallBuffers, idx)
                ELSE NewBuffer
        buf == [buf0 EXCEPT
                   !.id = IF tc.id \notin {Undefined, ""} THEN tc.id ELSE @,
                   !.name = IF tc.name \notin {Undefined, ""} THEN tc.name ELSE @,
                   !.args = IF tc.arguments # Undefined THEN @ \o tc.arguments ELSE @]
    IN  P_tryEmitBufferedToolCall([m EXCEPT !.p._toolCallBuffers = MapSet(@, idx, buf)], idx)

\* body of the loop over delta.tool_calls
P_processToolCallFragment(m, tc) ==
    LET idx == IF tc.index = NoIndex THEN 0 ELSE tc.index
        buf0 == IF MapHas(m.p._toolCallBuffers, idx) THEN MapGet(m.p._toolCallBuffers, idx)
                ELSE NewBuffer
        buf == [buf0 EXCEPT
                   !.id = IF tc.id \notin {Undefined, ""} THEN tc.id ELSE @,
                   !.name = IF tc.name \notin {Undefined, ""} THEN tc.name ELSE @,
                   !.args = IF tc.arguments # Undefined THEN @ \o tc.arguments ELSE @,
                   !.thoughtSignature =
                       IF tc.thought_signature # Undefined THEN tc.thought_signature
                       ELSE IF m.p._currentReasoningSignature \notin {Undefined, ""}
                            THEN m.p._currentReasoningSignature
                            ELSE @]
        collected == m.p._currentResponseReasoningDetails
        evicted == IF Len(m.p._reasoningDetailsMap) > 100
                   THEN Tail(m.p._reasoningDetailsMap) ELSE m.p._reasoningDetailsMap
        m1 == IF buf.id # Undefined /\ Len(collected) > 0
              THEN [m EXCEPT !.p._reasoningDetailsMap = MapSet(evicted, buf.id, collected)]
              ELSE m
    IN  IF idx \in m.p._completedToolCallIndices THEN m
        ELSE P_tryEmitBufferedToolCall(
                 [m1 EXCEPT !.p._toolCallBuffers = MapSet(@, idx, buf)], idx)

RECURSIVE P_processToolCallFragments(_, _)
P_processToolCallFragments(m, toolCalls) ==
    IF toolCalls = <<>> THEN m
    ELSE P_processToolCallFragments(P_processToolCallFragment(m, Head(toolCalls)),
                                    Tail(toolCalls))

\* "Process Tool Calls": the separator before the first tool call, then the fragments
P_processToolCalls(m, delta) ==
    LET toolCalls == delta.tool_calls
        m1 == IF ~m.p._emittedBeginToolCallsHint /\ m.p._hasEmittedAssistantText
                 /\ Len(toolCalls) > 0
              THEN [Report(m, TextPart(" ", "beginToolCallsHint"))
                       EXCEPT !.p._emittedBeginToolCallsHint = TRUE]
              ELSE m
    IN  P_processToolCallFragments(m1, toolCalls)

\* flushToolCallBuffers over the entries present when it was called; with
\* throwOnInvalid the first record that does not parse ends the flush (it throws)
RECURSIVE P_flushEntries(_, _, _)
P_flushEntries(m, entries, throwOnInvalid) ==
    IF entries = <<>> THEN m
    ELSE LET idx == Head(entries).key
             buf == Head(entries).val
             parsed == tryParseJSONObject(buf.args)
             id == IF buf.id # Undefined THEN buf.id ELSE RandomCallId(m)
             name == IF buf.name # Undefined THEN buf.name ELSE "unknown_tool"
             m1 == IF buf.id # Undefined THEN m ELSE [m EXCEPT !.p.callIdsGenerated = @ + 1]
             m2 == [m1 EXCEPT !.p._emittedTextToolCallKeys =
                                  @ \cup {name \o ":" \o parsed.value}]
             m3 == Report(m2, ToolCallPart(P_finalId(id, buf), name, parsed.value, idx,
                                           buf.args, "flushToolCallBuffers"))
         IN  IF ~parsed.ok
             THEN IF throwOnInvalid THEN m
                  ELSE P_flushEntries(m, Tail(entries), throwOnInvalid)
             ELSE P_flushEntries([m3 EXCEPT !.p._toolCallBuffers = MapDelete(@, idx),
                                            !.p._completedToolCallIndices = @ \cup {idx}],
                                 Tail(entries), throwOnInvalid)

P_flushToolCallBuffers(m, throwOnInvalid) ==
    P_flushEntries(m, m.p._toolCallBuffers, throwOnInvalid)

P_processFinish(m, delta) ==
    IF delta.finish_reason \in {"tool_calls", "stop"}
    THEN P_flushToolCallBuffers(m, TRUE)
    ELSE m

\* processDelta(delta, progress)
P_processDelta(m, delta) ==
    IF ~delta.hasChoice THEN m
    ELSE P_processFinish(P_processToolCalls(P_processContent(P_processThinking(m, delta), delta),
                                            delta), delta)

\* the "[DONE]" line: flushToolCallBuffers(progress, false); flushActiveTextToolCall
\* returns at once since nothing sets _textToolActive; the loop goes on
P_done(m) == P_flushToolCallBuffers(m, FALSE)

\* the finally block of processStreamingResponse
P_finally(m) ==
    [m EXCEPT !.p._toolCallBuffers = <<>>,
              !.p._completedToolCallIndices = {},
              !.p._hasEmittedAssistantText = FALSE,
              !.p._emittedBeginToolCallsHint = FALSE,
              !.p._textToolActive = Undefined,
              !.p._emittedTextToolCallKeys = {},
              !.p._xmlThinkActive = FALSE,
              !.p._xmlThinkDetectionAttempted = FALSE,
              !.p._currentThinkingId = 0]

----------------------------------------------------------------------------
(* HuggingFaceChatModelProvider of src/unnamed/part_001: reasoning text coalesced,
   tool calls keyed by id. *)

REASONING_FLUSH_LENGTH == 4000

CoalInit ==
    [_toolCallBuffers |-> <<>>,
     _completedToolCallIndices |-> {},
     _hasEmittedAssistantText |-> FALSE,
     _emittedBeginToolCallsHint |-> FALSE,
     _textToolActive |-> Undefined,
     _emittedTextToolCallKeys |-> {},
     _emittedTextToolCallIds |-> {},
     _xmlThinkActive |-> FALSE,
     _xmlThinkDetectionAttempted |-> FALSE,
     _currentThinkingId |-> 0,
     _currentResponseReasoningDetails |-> <<>>,
     _reasoningTextBuffer |-> "",
     idsGenerated |-> 0,
     callIdsGenerated |-> 0,
     sinkThrows |-> {},
     sinkErrorsLogged |-> 0,
     calls |-> 1]

\* closeActiveThinking
C_closeActiveThinking(m) ==
    IF m.p._currentThinkingId # 0
    THEN [Report(m, ThinkingPart("", m.p._currentThinkingId, NoMetadata, "closeActiveThinking"))
             EXCEPT !.p._currentThinkingId = 0]
    ELSE m

CoalescedMetadata == [NoMetadata EXCEPT !.present = TRUE, !.type = "reasoning.text"]

\* flushReasoningBuffer
C_flushReasoningBuffer(m) ==
    IF Len(m.p._reasoningTextBuffer) > 0
    THEN LET m1 == EnsureThinkingId(m)
         IN  [Report(m1, ThinkingPart(m1.p._reasoningTextBuffer, m1.p._currentThinkingId,
                                      CoalescedMetadata, "flushReasoningBuffer"))
                 EXCEPT !.p._reasoningTextBuffer = ""]
    ELSE m

C_detailText(detail) ==
    IF detail.type = "reasoning.summary" THEN detail.text
    ELSE IF detail.type = "reasoning.text" THEN detail.text
    ELSE IF detail.type = "reasoning.encrypted" THEN "[REDACTED]"
    ELSE StringifyDetail(detail)

C_detailSignature(detail) ==
    IF detail.type = "reasoning.text" /\ detail.signature \notin {Undefined, ""}
    THEN detail.signature
    ELSE IF detail.type = "reasoning.encrypted" /\ detail.data \notin {Undefined, ""}
    THEN detail.data
    ELSE Undefined

\* mutant: signed reasoning text joins the coalescing buffer
C_processDetail_BuffersSigned(m, detail) ==
    LET m0 == [m EXCEPT !.p._currentResponseReasoningDetails = Append(@, detail)]
        buffered == [m0 EXCEPT !.p._reasoningTextBuffer = @ \o C_detailText(detail)]
    IN  IF Len(buffered.p._reasoningTextBuffer) > REASONING_FLUSH_LENGTH
        THEN C_flushReasoningBuffer(buffered)
        ELSE buffered

\* mutant: a signed or special segment is reported before the pending buffer
C_processDetail_EmitsBeforeFlush(m, detail) ==
    LET text == C_detailText(detail)
        signature == C_detailSignature(detail)
        isSimpleText == detail.type = "reasoning.text"
        m0 == [m EXCEPT !.p._currentResponseReasoningDetails = Append(@, detail)]
        buffered == [m0 EXCEPT !.p._reasoningTextBuffer = @ \o text]
        withId == EnsureThinkingId(m0)
        metadata == [present |-> TRUE, format |-> detail.format, type |-> detail.type,
                     index |-> detail.index, signature |-> signature, data |-> Undefined]
        emitted == IF text # "" \/ signature # Undefined
                   THEN Report(withId, ThinkingPart(text, withId.p._currentThinkingId, metadata,
                                                    "reasoning_details"))
                   ELSE m0
    IN  IF isSimpleText /\ signature = Undefined
        THEN IF Len(buffered.p._reasoningTextBuffer) > REASONING_FLUSH_LENGTH
             THEN C_flushReasoningBuffer(buffered)
             ELSE buffered
        ELSE C_flushReasoningBuffer(emitted)

\* body of the loop over sortedDetails: the coalescing logic
C_processDetail(m, detail) ==
    LET text == C_detailText(detail)
        signature == C_detailSignature(detail)
        isSimpleText == detail.type = "reasoning.text"
        m0 == [m EXCEPT !.p._currentResponseReasoningDetails = Append(@, detail)]
        buffered == [m0 EXCEPT !.p._reasoningTextBuffer = @ \o text]
        flushed == IF Len(m0.p._reasoningTextBuffer) > 0 THEN C_flushReasoningBuffer(m0) ELSE m0
        withId == EnsureThinkingId(flushed)
        metadata == [present |-> TRUE, format |-> detail.format, type |-> detail.type,
                     index |-> detail.index, signature |-> signature, data |-> Undefined]
    IN  IF isSimpleText /\ signature = Undefined
        THEN IF Len(buffered.p._reasoningTextBuffer) > REASONING_FLUSH_LENGTH
             THEN C_flushReasoningBuffer(buffered)
             ELSE buffered
        ELSE IF text # "" \/ signature # Undefined
             THEN Report(withId, ThinkingPart(text, withId.p._currentThinkingId, metadata,
                                              "reasoning_details"))
             ELSE flushed

RECURSIVE C_processDetails(_, _)
C_processDetails(m, details) ==
    IF details = <<>> THEN m
    ELSE C_processDetails(C_processDetail(m, Head(details)), Tail(details))

C_processLegacyThinking(m, text) ==
    IF text \notin {Undefined, ""}
    THEN LET m1 == EnsureThinkingId(m)
         IN  Report(m1, ThinkingPart(text, m1.p._currentThinkingId, NoMetadata, "thinking"))
    ELSE m

C_processThinking(m, delta) ==
    IF Len(delta.reasoning_details) > 0
    THEN C_processDetails(m, SortDetails(delta.reasoning_details))
    ELSE C_processLegacyThinking(m, delta.thinking)

\* the while loop of processXmlThinkBlocks over data
RECURSIVE C_xmlLoop(_, _, _, _)
C_xmlLoop(m, data, emittedAny, remainingText) ==
    IF Len(data) = 0
    THEN [m |-> m, emittedAny |-> emittedAny, remainingText |-> remainingText]
    ELSE IF ~m.p._xmlThinkActive THEN
        LET startIdx == indexOf(data, THINK_START)
        IN  IF startIdx = -1
            THEN [m |-> [m EXCEPT !.p._xmlThinkDetectionAttempted = TRUE],
                  emittedAny |-> emittedAny, remainingText |-> remainingText \o data]
            ELSE LET g == GenerateThinkingId(m)
                 IN  C_xmlLoop([g EXCEPT !.p._xmlThinkActive = TRUE,
                                         !.p._currentThinkingId = ThinkingIdOf(g)],
                               substringFrom(data, startIdx + Len(THINK_START)), emittedAny,
                               remainingText \o substring(data, 0, startIdx))
    ELSE
        LET endIdx == indexOf(data, THINK_END)
            m1 == EnsureThinkingId(m)
        IN  IF endIdx = -1
            THEN [m |-> Report(m1, ThinkingPart(data, m1.p._currentThinkingId, NoMetadata,
                                                "processXmlThinkBlocks")),
                  emittedAny |-> TRUE, remainingText |-> remainingText]
            ELSE LET m2 == Report(m1, ThinkingPart(substring(data, 0, endIdx),
                                                   m1.p._currentThinkingId, NoMetadata,
                                                   "processXmlThinkBlocks"))
                 IN  C_xmlLoop(C_closeActiveThinking([m2 EXCEPT !.p._xmlThinkActive = FALSE]),
                               substringFrom(data, endIdx + Len(THINK_END)), TRUE,
                               remainingText)

C_processXmlThinkBlocks(m, input) ==
    IF m.p._xmlThinkDetectionAttempted /\ ~m.p._xmlThinkActive
    THEN [m |-> m, emittedAny |-> FALSE, remainingText |-> input]
    ELSE C_xmlLoop(m, input, FALSE, "")

C_processTextContent(m, input) ==
    IF Len(input) > 0
    THEN [m |-> Report(m, TextPart(input, "processTextContent")), emittedText |-> TRUE]
    ELSE [m |-> m, emittedText |-> FALSE]

\* "Process Text Content"
C_processContent(m, delta) ==
    IF delta.content = "" THEN m
    ELSE LET xmlRes == C_processXmlThinkBlocks(m, delta.content)
             m1 == xmlRes.m
             hasVisibleContent == Len(trim(xmlRes.remainingText)) > 0
             m2 == IF hasVisibleContent /\ m1.p._currentThinkingId # 0
                   THEN [Report(m1, ThinkingPart("", m1.p._currentThinkingId, NoMetadata, "close"))
                            EXCEPT !.p._currentThinkingId = 0]
                   ELSE m1
             res == C_processTextContent(m2, xmlRes.remainingText)
         IN  IF Len(xmlRes.remainingText) > 0
             THEN IF res.emittedText
                  THEN [res.m EXCEPT !.p._hasEmittedAssistantText = TRUE]
                  ELSE res.m
             ELSE m1

\* body of the loop over delta.tool_calls: the record is looked up by id, and a new
\* record is stored only when the fragment has an id
C_processToolCallFragment(m, tc) ==
    LET id == IF tc.id = Undefined THEN "" ELSE tc.id
        stored == MapHas(m.p._toolCallBuffers, id)
        buf0 == IF stored THEN MapGet(m.p._toolCallBuffers, id)
                ELSE [id |-> id, name |-> "", arguments |-> ""]
        buf == [buf0 EXCEPT
                   !.name = IF tc.name \notin {Undefined, ""} THEN @ \o tc.name ELSE @,
                   !.arguments = IF tc.arguments \notin {Undefined, ""}
                                 THEN @ \o tc.arguments ELSE @]
        m1 == IF stored \/ id # ""
              THEN [m EXCEPT !.p._toolCallBuffers = MapSet(@, id, buf)]
              ELSE m
    IN  IF tc.thought \notin {Undefined, ""}
        THEN Report(m1, ToolCallPart(id, id, "{\"thought\":\"" \o tc.thought \o "\"}", id,
                                     buf.arguments, "x-provider"))
        ELSE m1

RECURSIVE C_processToolCallFragments(_, _)
C_processToolCallFragments(m, toolCalls) ==
    IF toolCalls = <<>> THEN m
    ELSE C_processToolCallFragments(C_processToolCallFragment(m, Head(toolCalls)),
                                    Tail(toolCalls))

C_tryEmitBufferedToolCall(m, key, isLast) ==
    IF ~MapHas(m.p._toolCallBuffers, key) THEN m
    ELSE LET buf == MapGet(m.p._toolCallBuffers, key)
             canParseResult == tryParseJSONObject(buf.arguments)
             toolKey == buf.name \o ":" \o canParseResult.value
             m1 == IF canParseResult.ok
                   THEN [m EXCEPT !.p._emittedTextToolCallKeys = @ \cup {toolKey}]
                   ELSE m
             m2 == Report(m1, ToolCallPart(buf.id, buf.name,
                                           IF canParseResult.ok THEN canParseResult.value
                                           ELSE "{}",
                                           key, buf.arguments, "tryEmitBufferedToolCall"))
         IN  IF buf.name = "" THEN m
             ELSE IF ~canParseResult.ok /\ ~isLast THEN m
             ELSE IF canParseResult.ok /\ toolKey \in m.p._emittedTextToolCallKeys
             THEN [m EXCEPT !.p._toolCallBuffers = MapDelete(@, key)]
             ELSE [m2 EXCEPT !.p._toolCallBuffers = MapDelete(@, key)]

RECURSIVE C_flushKeys(_, _)
C_flushKeys(m, keys) ==
    IF keys = <<>> THEN m
    ELSE C_flushKeys(C_tryEmitBufferedToolCall(m, Head(keys), TRUE), Tail(keys))

\* flushToolCallBuffers
C_flushToolCallBuffers(m) == C_flushKeys(m, MapKeys(m.p._toolCallBuffers))

C_processFinish(m, delta) ==
    IF delta.finish_reason \in {"tool_calls", "stop"} THEN C_flushToolCallBuffers(m) ELSE m

\* processDelta(delta, progress)
C_processDelta(m, delta) ==
    IF ~delta.hasChoice THEN m
    ELSE C_processFinish(
             C_processToolCallFragments(
                 C_processContent(C_processThinking(m, delta), delta), delta.tool_calls),
             delta)

\* the finally block of processStreamingResponse
C_finally(m) ==
    [C_closeActiveThinking(m) EXCEPT !.p._toolCallBuffers = <<>>,
                                     !.p._currentThinkingId = 0,
                                     !.p._reasoningTextBuffer = ""]

\* the "[DONE]" line: the flushes, then return through the finally block
C_done(m) ==
    C_finally(C_closeActiveThinking(C_flushReasoningBuffer(C_flushToolCallBuffers(m))))

----------------------------------------------------------------------------
(* The response stream: decoded data lines delivered in order to both providers *)

MaxLines == 4

EmptyDelta ==
    [hasChoice |-> TRUE, reasoning_details |-> <<>>, thinking |-> Undefined, content |-> "",
     tool_calls |-> <<>>, finish_reason |-> Undefined]

\* a tool-call fragment {index, id, function: {name, arguments}}
Fragment(index, id, name, arguments) ==
    [index |-> index, id |-> id, name |-> name, arguments |-> arguments,
     thought_signature |-> Undefined, thought |-> Undefined]

\* a reasoning detail; text holds the summary of a reasoning.summary detail
Detail(type, text, signature, index) ==
    [type |-> type, text |-> text, signature |-> signature, data |-> Undefined,
     format |-> Undefined, index |-> index]

ContentDelta(content) == [EmptyDelta EXCEPT !.content = content]
ToolCallsDelta(toolCalls) == [EmptyDelta EXCEPT !.tool_calls = toolCalls]
FinishDelta(reason) == [EmptyDelta EXCEPT !.finish_reason = reason]
DetailsDelta(details) == [EmptyDelta EXCEPT !.reasoning_details = details]
ThinkingDelta(text) == [EmptyDelta EXCEPT !.thinking = text]

DeltaLine(delta) == [data |-> "delta", delta |-> delta]
DoneLine == [data |-> "[DONE]", delta |-> EmptyDelta]

\* streams of tool-call fragments
ToolDeltas ==
    { ToolCallsDelta(<<Fragment(0, "c0", "f", "")>>),
      ToolCallsDelta(<<Fragment(0, Undefined, Undefined, "{")>>),
      ToolCallsDelta(<<Fragment(0, Undefined, Undefined, "\"a\":1}")>>),
      ToolCallsDelta(<<Fragment(0, "c0", Undefined, "{\"a\":1")>>),
      ToolCallsDelta(<<Fragment(0, "c0", Undefined, " }")>>),
      ToolCallsDelta(<<Fragment(1, "c1", "g", "{}")>>),
      ToolCallsDelta(<<Fragment(1, Undefined, Undefined, "{")>>),
      ToolCallsDelta(<<Fragment(0, "c0", "f", "{}"), Fragment(1, "c1", "f", "{}")>>),
      FinishDelta("stop"),
      [ContentDelta("hi") EXCEPT !.finish_reason = "tool_calls"],
      ContentDelta("hi") }

\* streams of content, with and without think tags
ContentDeltas ==
    { ContentDelta("Hello <thi"),
      ContentDelta("nk>pondering"),
      ContentDelta("</think> world"),
      ContentDelta("A<think>B</think>C"),
      ContentDelta("hi"),
      ContentDelta(" "),
      ThinkingDelta("t"),
      ToolCallsDelta(<<Fragment(1, "c1", "g", "{}")>>),
      [ContentDelta("ok") EXCEPT !.thinking = "t", !.finish_reason = "stop"] }

\* the providers read the next data line, a delta
Deliver(delta) ==
    /\ pStatus = "reading"
    /\ Len(lines) < MaxLines
    /\ lines' = Append(lines, DeltaLine(delta))
    /\ LET m == P_processDelta([p |-> prov, sink |-> pSink], delta)
       IN  prov' = m.p /\ pSink' = m.sink
    /\ IF cStatus = "reading"
       THEN LET m == C_processDelta([p |-> coal, sink |-> cSink], delta)
            IN  coal' = m.p /\ cSink' = m.sink
       ELSE UNCHANGED <<coal, cSink>>
    /\ UNCHANGED <<pStatus, cStatus, kvars, openaiMessages>>

\* the providers read the "[DONE]" data line
DeliverDone ==
    /\ pStatus = "reading"
    /\ Len(lines) < MaxLines
    /\ lines' = Append(lines, DoneLine)
    /\ LET m == P_done([p |-> prov, sink |-> pSink])
       IN  prov' = m.p /\ pSink' = m.sink
    /\ IF cStatus = "reading"
       THEN LET m == C_done([p |-> coal, sink |-> cSink])
            IN  coal' = m.p /\ cSink' = m.sink
       ELSE UNCHANGED <<coal, cSink>>
    /\ cStatus' = "returned"
    /\ UNCHANGED <<pStatus, kvars, openaiMessages>>

\* the reader reports the end of the stream
StreamEnd ==
    /\ pStatus = "reading"
    /\ LET m == P_finally([p |-> prov, sink |-> pSink])
       IN  prov' = m.p /\ pSink' = m.sink
    /\ IF cStatus = "reading"
       THEN LET m == C_finally([p |-> coal, sink |-> cSink])
            IN  coal' = m.p /\ cSink' = m.sink
       ELSE UNCHANGED <<coal, cSink>>
    /\ pStatus' = "returned"
    /\ cStatus' = "returned"
    /\ UNCHANGED <<lines, kvars, openaiMessages>>

DeliverToolDelta == \E delta \in ToolDeltas : Deliver(delta)
DeliverContentDelta == \E delta \in ContentDeltas : Deliver(delta)

\* the state after provideLanguageModelChatResponse has reset the per-stream fields
PInit ==
    /\ lines = <<>>
    /\ prov = ProvInit
    /\ pSink = <<>>
    /\ pStatus = "reading"
    /\ coal = CoalInit
    /\ cSink = <<>>
    /\ cStatus = "reading"
    /\ openaiMessages = <<>>

\* the sentinel parser is not in use
KIdle ==
    /\ parser = ParserInit
    /\ kInput = ""
    /\ kFed = ""
    /\ kOut = <<>>
    /\ kFlushOut = <<>>
    /\ kSplit = FALSE
    /\ kPhase = "flushed"

\* a stream of sentinel-marked text: the parser is fed, the providers are idle
KimiInit == KInit /\ PInit
SpecKimi == KimiInit /\ [][KNext]_vars

\* a stream of data lines: the providers read, the sentinel parser is idle
ProviderInit == PInit /\ KIdle

ToolNext == DeliverToolDelta \/ DeliverDone \/ StreamEnd
SpecTools == ProviderInit /\ [][ToolNext]_vars

ContentNext == DeliverContentDelta \/ DeliverDone \/ StreamEnd
SpecContent == ProviderInit /\ [][ContentNext]_vars

----------------------------------------------------------------------------
(* Claims about the tool-call buffer managers, checked under SpecTools *)

RECURSIVE FragmentsOf(_)
\* the tool-call fragments of the delivered lines, in arrival order
FragmentsOf(ls) ==
    IF ls = <<>> THEN <<>>
    ELSE (IF Head(ls).data = "delta" THEN Head(ls).delta.tool_calls ELSE <<>>)
         \o FragmentsOf(Tail(ls))

IndexOfFragment(tc) == IF tc.index = NoIndex THEN 0 ELSE tc.index

FragmentsFor(ls, i) == SelectSeq(FragmentsOf(ls), LAMBDA tc : IndexOfFragment(tc) = i)

RECURSIVE ArgsConcat(_, _)
\* the argument pieces of the first j fragments, concatenated
ArgsConcat(frs, j) ==
    IF j = 0 THEN ""
    ELSE ArgsConcat(frs, j - 1) \o (IF frs[j].arguments = Undefined THEN "" ELSE frs[j].arguments)

\* the first fragment after which the accumulated argument text parses; 0 if none
FirstComplete(frs) ==
    IF \E j \in 1..Len(frs) : tryParseJSONObject(ArgsConcat(frs, j)).ok
    THEN CHOOSE j \in 1..Len(frs) :
            /\ tryParseJSONObject(ArgsConcat(frs, j)).ok
            /\ \A k \in 1..(j - 1) : ~tryParseJSONObject(ArgsConcat(frs, k)).ok
    ELSE 0

ToolEventsFor(sink, key) == SelectSeq(sink, LAMBDA e : e.kind = "tool" /\ e.key = key)

Indices == {0, 1}

NameFirst(frs) == Len(frs) > 0 /\ frs[1].name \notin {Undefined, ""}

\* C2: in src/src/provider.ts, for an index whose first fragment brought the name,
\* no tool-call event exists while the argument pieces received so far do not parse,
\* and from the delta on in which they first parse there is exactly one, reported by
\* tryEmitBufferedToolCall, whose arguments are the parse of the text accumulated up
\* to that fragment.
C2_EmittedOnceWhenArgumentsParse ==
    \A i \in Indices :
        LET frs == FragmentsFor(lines, i)
            j == FirstComplete(frs)
            evs == ToolEventsFor(pSink, i)
        IN  NameFirst(frs) =>
                IF j = 0 THEN Len(evs) = 0
                ELSE /\ Len(evs) = 1
                     /\ evs[1].site = "tryEmitBufferedToolCall"
                     /\ evs[1].text = ArgsConcat(frs, j)
                     /\ evs[1].input = tryParseJSONObject(ArgsConcat(frs, j)).value

\* C2 witness: the name came first, the arguments came in two later fragments of
\* which the first did not parse, and the call has been emitted.
C2_Witness ==
    \E i \in Indices :
        LET frs == FragmentsFor(lines, i)
        IN  /\ NameFirst(frs)
            /\ FirstComplete(frs) = 3
            /\ ArgsConcat(frs, 1) = ""
            /\ ArgsConcat(frs, 2) # ""
            /\ Len(ToolEventsFor(pSink, i)) = 1

\* every fragment a delta of the model can carry
AllFragments == UNION {{d.tool_calls[k] : k \in 1..Len(d.tool_calls)} : d \in ToolDeltas}

\* C6: in src/src/provider.ts, an index for which a tool-call event was emitted is in
\* the completed set while the stream is read; a fragment for a completed index
\* reports nothing and leaves every field (the buffers and the completed set among
\* them) as it was; and no index ever has more than one tool-call event, whatever
\* fragments, finish markers and done markers follow.
C6_CompletedIndexIgnored ==
    /\ \A i \in Indices : Len(ToolEventsFor(pSink, i)) <= 1
    /\ pStatus = "reading" =>
          \A i \in Indices :
              Len(ToolEventsFor(pSink, i)) = 1 => i \in prov._completedToolCallIndices
    /\ \A tc \in AllFragments :
          IndexOfFragment(tc) \in prov._completedToolCallIndices =>
              P_processToolCallFragment([p |-> prov, sink |-> pSink], tc)
                  = [p |-> prov, sink |-> pSink]

\* C6 witness: index 0 was emitted, then a fragment for index 0 arrived again, then
\* a finish marker and the done marker, and index 0 still has one event.
C6_Witness ==
    /\ Len(lines) = 4
    /\ lines[1] = DeltaLine(ToolCallsDelta(<<Fragment(0, "c0", "f", "{}"),
                                            Fragment(1, "c1", "f", "{}")>>))
    /\ lines[2] = DeltaLine(ToolCallsDelta(<<Fragment(0, "c0", Undefined, "{\"a\":1")>>))
    /\ lines[3] = DeltaLine(FinishDelta("stop"))
    /\ lines[4] = DoneLine
    /\ Len(ToolEventsFor(pSink, 0)) = 1

\* C7 as stated: in src/unnamed/part_001, every tool-call event reported by
\* tryEmitBufferedToolCall carries the successful parse of its record's accumulated
\* argument text, so a record whose text does not parse produces no event.
C7_OnlyParsedArguments ==
    \A k \in 1..Len(cSink) :
        (cSink[k].kind = "tool" /\ cSink[k].site = "tryEmitBufferedToolCall") =>
            /\ tryParseJSONObject(cSink[k].text).ok
            /\ cSink[k].input = tryParseJSONObject(cSink[k].text).value

----------------------------------------------------------------------------
(* Claims about the content path, checked under SpecContent *)

RECURSIVE ContentsOf(_)
\* the content strings of the delivered deltas, concatenated in arrival order
ContentsOf(ls) ==
    IF ls = <<>> THEN ""
    ELSE (IF Head(ls).data = "delta" THEN Head(ls).delta.content ELSE "")
         \o ContentsOf(Tail(ls))

RECURSIVE BeforeDone(_)
\* the lines read before the "[DONE]" line, at which part_001 returns
BeforeDone(ls) ==
    IF ls = <<>> \/ Head(ls).data = "[DONE]" THEN <<>>
    ELSE <<Head(ls)>> \o BeforeDone(Tail(ls))

RECURSIVE TextOf(_)
\* the values of the text parts of a sink, concatenated
TextOf(sink) ==
    IF sink = <<>> THEN ""
    ELSE (IF Head(sink).kind = "text" THEN Head(sink).value ELSE "") \o TextOf(Tail(sink))

HasTag(s) == indexOf(s, THINK_START) # -1 \/ indexOf(s, THINK_END) # -1

NoThinkTags(ls) ==
    \A k \in 1..Len(ls) : ls[k].data = "delta" => ~HasTag(ls[k].delta.content)

RECURSIVE TextWithSeparator(_, _, _)
\* the contents in arrival order, with one " " where the first tool-call fragments
\* arrive after some content
TextWithSeparator(ls, hadText, separated) ==
    IF ls = <<>> THEN ""
    ELSE LET d == Head(ls).delta
             isDelta == Head(ls).data = "delta"
             text == isDelta /\ d.content # ""
             sep == isDelta /\ Len(d.tool_calls) > 0 /\ (hadText \/ text) /\ ~separated
         IN  (IF text THEN d.content ELSE "") \o (IF sep THEN " " ELSE "")
             \o TextWithSeparator(Tail(ls), hadText \/ text, separated \/ sep)

\* C10 as stated: for deltas whose content strings contain no think tags, the text
\* parts a provider reports concatenate to the concatenation of the content strings,
\* whatever else the deltas carry.
C10_TextEqualsContents ==
    NoThinkTags(lines) =>
        /\ TextOf(pSink) = ContentsOf(lines)
        /\ TextOf(cSink) = ContentsOf(BeforeDone(lines))

\* C10 as amended: the same, except that src/src/provider.ts reports one more text
\* part, the separator " ", when the first non-empty tool_calls list arrives after
\* content was reported.
C10_TextEqualsContentsAndSeparator ==
    NoThinkTags(lines) =>
        /\ TextOf(pSink) = TextWithSeparator(lines, FALSE, FALSE)
        /\ TextOf(cSink) = ContentsOf(BeforeDone(lines))

\* C10 witness: content, tool-call fragments and more content were delivered with
\* other fields beside them, and the separator is among the text parts.
C10_Witness ==
    /\ NoThinkTags(lines)
    /\ Len(lines) = 4
    /\ \E k \in 1..Len(pSink) : pSink[k].kind = "text" /\ pSink[k].site = "beginToolCallsHint"
    /\ \E k \in 1..Len(lines) : lines[k].delta.thinking # Undefined
    /\ TextOf(pSink) # ContentsOf(lines)
    /\ TextOf(cSink) = ContentsOf(lines)
    /\ Len(ContentsOf(lines)) > 4

\* the text and thinking parts of a sink with empty-text thinking parts (span
\* closures) left out and adjacent parts of one kind concatenated
RECURSIVE Spans(_, _)
Spans(out, sink) ==
    IF sink = <<>> THEN out
    ELSE LET e == Head(sink)
             skip == e.kind = "tool" \/ e.value = ""
             join == Len(out) > 0 /\ out[Len(out)].kind = e.kind
         IN  Spans(IF skip THEN out
                   ELSE IF join THEN [out EXCEPT ![Len(out)].value = @ \o e.value]
                   ELSE Append(out, [kind |-> e.kind, value |-> e.value]),
                   Tail(sink))

\* text A, thinking B, text C, the empty ones left out
ExpectedSpans(a, b, c) ==
    (IF a = "" THEN <<>> ELSE <<[kind |-> "text", value |-> a]>>)
    \o (IF b = "" THEN <<>> ELSE <<[kind |-> "thinking", value |-> b]>>)
    \o (IF c = "" THEN <<>> ELSE <<[kind |-> "text", value |-> c]>>)

\* the delivered lines are plain content deltas
OnlyContent(ls) == \A k \in 1..Len(ls) : ls[k] = DeltaLine(ContentDelta(ls[k].delta.content))

\* one of the two tags lies within no single fragment
SomeTagSplit(ls) ==
    \E tag \in {THINK_START, THINK_END} :
        \A k \in 1..Len(ls) : indexOf(ls[k].delta.content, tag) = -1

\* C5 as stated: when the delivered content is A<think>B</think>C cut into fragments
\* so that a tag is split over fragments, both providers report text A, then
\* thinking B, then text C, with no part of a tag in any of them.
C5_SplitTagsRecognised ==
    LET all == ContentsOf(lines)
        startIdx == indexOf(all, THINK_START)
        a == substring(all, 0, startIdx)
        rest == substringFrom(all, startIdx + Len(THINK_START))
        endIdx == indexOf(rest, THINK_END)
        b == substring(rest, 0, endIdx)
        c == substringFrom(rest, endIdx + Len(THINK_END))
    IN  (/\ OnlyContent(lines)
         /\ SomeTagSplit(lines)
         /\ startIdx # -1
         /\ endIdx # -1
         /\ ~HasTag(a) /\ ~HasTag(b) /\ ~HasTag(c))
        => /\ Spans(<<>>, pSink) = ExpectedSpans(a, b, c)
           /\ Spans(<<>>, cSink) = ExpectedSpans(a, b, c)

----------------------------------------------------------------------------
(* Streams of reasoning details, and the claims about the coalescing of
   reasoning text in src/unnamed/part_001, checked under SpecReasoning *)

RECURSIVE Rep(_, _)
\* s repeated n times
Rep(s, n) ==
    IF n = 0 THEN ""
    ELSE LET half == Rep(s, n \div 2)
         IN  half \o half \o (IF n % 2 = 1 THEN s ELSE "")

\* an unsigned plain reasoning.text segment
Segment(text) == DetailsDelta(<<Detail("reasoning.text", text, Undefined, 0)>>)

SegmentTexts == {"ab", Rep("r", 2000), Rep("q", 4000)}

ReasoningDeltas ==
    { Segment(text) : text \in SegmentTexts }
    \cup
    { DetailsDelta(<<Detail("reasoning.text", "cd", "sigA", 0)>>),
      DetailsDelta(<<Detail("reasoning.text", "", "sigB", 0)>>),
      DetailsDelta(<<Detail("reasoning.text", "ef", "", 0)>>),
      DetailsDelta(<<Detail("reasoning.text", "Y", "sigC", 1),
                     Detail("reasoning.text", "x", Undefined, 0)>>),
      DetailsDelta(<<Detail("reasoning.summary", "sum", Undefined, 0)>>),
      DetailsDelta(<<[Detail("reasoning.encrypted", Undefined, Undefined, 0)
                         EXCEPT !.data = "enc"]>>),
      ContentDelta("hi") }

DeliverReasoningDelta == \E delta \in ReasoningDeltas : Deliver(delta)

ReasoningNext == DeliverReasoningDelta \/ DeliverDone \/ StreamEnd
SpecReasoning == ProviderInit /\ [][ReasoningNext]_vars

RECURSIVE TextDetailsOf(_)
\* the reasoning.text details of the lines, in the order the loop visits them
TextDetailsOf(ls) ==
    IF ls = <<>> THEN <<>>
    ELSE SelectSeq(SortDetails(Head(ls).delta.reasoning_details),
                   LAMBDA d : d.type = "reasoning.text")
         \o TextDetailsOf(Tail(ls))

IsSigned(detail) == detail.signature \notin {Undefined, ""}

\* the thinking parts of a sink that carry reasoning.text metadata
TextThinkingOf(sink) ==
    SelectSeq(sink, LAMBDA e : e.kind = "thinking" /\ e.metadata.present
                               /\ e.metadata.type = "reasoning.text")

\* the positions at which a sequence of booleans is TRUE, in order, from k on
RECURSIVE PositionsFrom(_, _)
PositionsFrom(flags, k) ==
    IF k > Len(flags) THEN <<>>
    ELSE (IF flags[k] THEN <<k>> ELSE <<>>) \o PositionsFrom(flags, k + 1)

RECURSIVE ValuesUpTo(_, _)
\* the values of the first n parts of a sequence of thinking parts, concatenated
ValuesUpTo(events, n) ==
    IF n = 0 THEN "" ELSE ValuesUpTo(events, n - 1) \o events[n].value

RECURSIVE DetailTextsUpTo(_, _)
DetailTextsUpTo(details, n) ==
    IF n = 0 THEN "" ELSE DetailTextsUpTo(details, n - 1) \o details[n].text

\* C3: in src/unnamed/part_001 the signed reasoning.text details and the thinking
\* parts that carry a signature correspond one to one, in order: the part's text is
\* the detail's text alone and its metadata signature is the detail's signature; and
\* the reasoning text reported before that part is exactly the text of the details
\* before that detail, so the unsigned text buffered before it was reported before it
\* in a part of its own.
C3_SignedSegmentOwnEvent ==
    LET details == TextDetailsOf(BeforeDone(lines))
        events == TextThinkingOf(cSink)
        signedDetails == PositionsFrom([k \in 1..Len(details) |-> IsSigned(details[k])], 1)
        signedEvents == PositionsFrom([k \in 1..Len(events) |->
                                           events[k].metadata.signature # Undefined], 1)
    IN  /\ Len(signedEvents) = Len(signedDetails)
        /\ \A j \in 1..Len(signedDetails) :
              LET d == details[signedDetails[j]]
                  e == events[signedEvents[j]]
              IN  /\ e.value = d.text
                  /\ e.metadata.signature = d.signature
                  /\ ValuesUpTo(events, signedEvents[j] - 1)
                       = DetailTextsUpTo(details, signedDetails[j] - 1)

\* C3 witness: unsigned text was buffered, a signed detail followed it, and the sink
\* holds the buffered text and then the signed text as two parts; a later delta held
\* its signed detail ahead of an unsigned one of lower index.
C3_Witness ==
    /\ Len(lines) = 3
    /\ lines[1] = DeltaLine(Segment("ab"))
    /\ lines[2].delta.reasoning_details = <<Detail("reasoning.text", "cd", "sigA", 0)>>
    /\ Len(lines[3].delta.reasoning_details) = 2
    /\ Len(cSink) = 4
    /\ cSink[1].value = "ab" /\ cSink[1].metadata.signature = Undefined
    /\ cSink[2].value = "cd" /\ cSink[2].metadata.signature = "sigA"
    /\ cSink[3].value = "x" /\ cSink[4].metadata.signature = "sigC"

\* C8 as stated: in src/unnamed/part_001, n unsigned plain reasoning.text segments of
\* one length s that divides 4000, followed by the done marker, are reported as
\* exactly ceil(n*s/4000) thinking parts with non-empty text.
C8_CoalescedEventCount ==
    LET n == Len(lines) - 1
        text == lines[1].delta.reasoning_details[1].text
        s == Len(text)
        total == n * s
        expected == (total + REASONING_FLUSH_LENGTH - 1) \div REASONING_FLUSH_LENGTH
        nonEmpty == {k \in 1..Len(cSink) : cSink[k].kind = "thinking" /\ cSink[k].value # ""}
    IN  (/\ Len(lines) >= 2
         /\ lines[Len(lines)] = DoneLine
         /\ lines[1].data = "delta"
         /\ Len(lines[1].delta.reasoning_details) = 1
         /\ text \in SegmentTexts
         /\ REASONING_FLUSH_LENGTH % s = 0
         /\ \A k \in 1..n : lines[k] = DeltaLine(Segment(text)))
        => Cardinality(nonEmpty) = expected

\* text P, the section-begin sentinel, then k well-formed calls and nothing after
SectionText(pre, k) == pre \o SECTION_BEGIN \o Calls(k, "")

\* the tool calls the k calls of a section text describe, in input order
ExpectedTools(k) == [i \in 1..k |-> ToolResult(trim(CallName(i)), trim(CallArgs(i)))]

ToolsOf(out) == SelectSeq(out, LAMBDA e : e.type = "tool")

\* C11: when the text delivered is P, the section-begin sentinel and k >= 1
\* well-formed calls with nothing after the last call-end, then however it was cut
\* into chunks the parser returns exactly k tool calls in input order, the i-th with
\* the trimmed name and trimmed arguments of the i-th call, and content that
\* concatenates to P (no content event when P is empty).
C11_SectionYieldsItsCalls ==
    \A pre \in {"", "a<|"}, k \in 1..MaxCalls :
        kFed = SectionText(pre, k)
            => /\ ToolsOf(OutputIfFlushedNow) = ExpectedTools(k)
               /\ ContentOf(OutputIfFlushedNow) = pre
               /\ pre = "" => Len(OutputIfFlushedNow) = k

\* C11 witness: two calls after text ending in a partial sentinel arrived in more
\* than two chunks, the section-begin sentinel split over chunks, and the stream ended.
C11_Witness ==
    /\ kPhase = "flushed"
    /\ kFed = SectionText("a<|", 2)
    /\ kSplit
    /\ Len(ToolsOf(kOut)) = 2
    /\ kOut[Len(kOut)].name = "g"
    /\ kFlushOut = <<>>

----------------------------------------------------------------------------
(* Cancellation: the loop of processStreamingResponse tests
   token.isCancellationRequested before each read *)

\* streams that leave a tool-call record, reasoning text or a thinking span open
CancelDeltas ==
    { ToolCallsDelta(<<Fragment(0, "c0", "f", "{\"a\":")>>),
      ToolCallsDelta(<<Fragment(0, "c0", Undefined, "1}")>>),
      Segment("ab"),
      ThinkingDelta("t"),
      ContentDelta("hi"),
      ContentDelta("<think>B") }

DeliverCancelDelta == \E delta \in CancelDeltas : Deliver(delta)

\* the token is cancelled when the loop tests it: the loop ends and the finally
\* block runs
Cancel ==
    /\ pStatus = "reading"
    /\ LET m == P_finally([p |-> prov, sink |-> pSink])
       IN  prov' = m.p /\ pSink' = m.sink
    /\ IF cStatus = "reading"
       THEN LET m == C_finally([p |-> coal, sink |-> cSink])
            IN  coal' = m.p /\ cSink' = m.sink /\ cStatus' = "cancelled"
       ELSE UNCHANGED <<coal, cSink, cStatus>>
    /\ pStatus' = "cancelled"
    /\ UNCHANGED <<lines, kvars, openaiMessages>>

CancelNext == DeliverCancelDelta \/ DeliverDone \/ StreamEnd \/ Cancel
SpecCancel == ProviderInit /\ [][CancelNext]_vars

\* C12 as stated: a cancellation observed between fragments reports what the done
\* marker would report from the same state (tool-call records flushed, buffered
\* reasoning text reported as a thinking part, an open thinking span closed) before
\* the buffers are cleared.
C12_CancelFlushesLikeDone ==
    [][(pStatus = "reading" /\ pStatus' = "cancelled")
          => /\ pSink' = P_finally(P_done([p |-> prov, sink |-> pSink])).sink
             /\ cStatus = "reading" => cSink' = C_done([p |-> coal, sink |-> cSink]).sink]_vars

----------------------------------------------------------------------------
(* The end of the stream in src/unnamed/part_001, checked under SpecReasoning *)

\* C13 as stated: when the stream has ended, with or without a done marker, no
\* buffered reasoning text was lost: the reasoning.text thinking parts of the sink
\* concatenate to the text of the reasoning.text details that were read.
C13_ReasoningBufferFlushedAtEnd ==
    cStatus # "reading"
        => LET details == TextDetailsOf(BeforeDone(lines))
               events == TextThinkingOf(cSink)
           IN  ValuesUpTo(events, Len(events)) = DetailTextsUpTo(details, Len(details))

----------------------------------------------------------------------------
(* Signatures in src/src/provider.ts, checked under SpecReasoning *)

\* C14 as stated: in src/src/provider.ts every reasoning.text detail that arrives
\* with a signature results in a thinking part whose metadata holds that signature
\* unchanged, also when the detail's text is empty: the signatures of the signed
\* details, in the order they were read, are the signatures of the thinking parts.
C14_SignatureReachesThinkingPart ==
    LET signed == SelectSeq(TextDetailsOf(lines), IsSigned)
        events == SelectSeq(pSink, LAMBDA e : e.kind = "thinking" /\ e.metadata.present
                                               /\ e.metadata.signature # Undefined)
    IN  /\ Len(events) = Len(signed)
        /\ \A j \in 1..Len(signed) : events[j].metadata.signature = signed[j].signature

----------------------------------------------------------------------------
(* Order of the parts of one content fragment in src/unnamed/part_001, checked
   under SpecContent *)

\* C15 as stated: when the first line is a content fragment A<think>B</think>C with
\* non-empty A and C, the sink of src/unnamed/part_001 holds text A, then thinking
\* B, then text C.
C15_FragmentPartsInOrder ==
    LET all == lines[1].delta.content
        startIdx == indexOf(all, THINK_START)
        a == substring(all, 0, startIdx)
        rest == substringFrom(all, startIdx + Len(THINK_START))
        endIdx == indexOf(rest, THINK_END)
        b == substring(rest, 0, endIdx)
        c == substringFrom(rest, endIdx + Len(THINK_END))
    IN  (/\ Len(lines) = 1
         /\ OnlyContent(lines)
         /\ startIdx # -1
         /\ endIdx # -1
         /\ a # "" /\ c # ""
         /\ ~HasTag(a) /\ ~HasTag(b) /\ ~HasTag(c))
        => Spans(<<>>, cSink) = ExpectedSpans(a, b, c)

----------------------------------------------------------------------------
(* A sink whose accept operation fails: progress.report throws at some calls *)

MaxSinkCall == 3

SinkDeltas ==
    { ContentDelta("A<think>B</think>C"),
      [ContentDelta("ok") EXCEPT !.thinking = "t"],
      ToolCallsDelta(<<Fragment(0, "c0", "f", "{}"), Fragment(1, "c1", "g", "{")>>),
      DetailsDelta(<<Detail("reasoning.text", "x", Undefined, 0),
                     Detail("reasoning.text", "Y", "sigC", 1)>>),
      FinishDelta("stop") }

\* the state after the reset, with a sink that throws at the calls numbered in a
\* subset of 1..MaxSinkCall
SinkInit ==
    /\ lines = <<>>
    /\ \E throws \in SUBSET (1..MaxSinkCall) :
          /\ prov = [ProvInit EXCEPT !.sinkThrows = throws]
          /\ coal = [CoalInit EXCEPT !.sinkThrows = throws]
    /\ pSink = <<>>
    /\ pStatus = "reading"
    /\ cSink = <<>>
    /\ cStatus = "reading"
    /\ openaiMessages = <<>>
    /\ KIdle

DeliverSinkDelta == \E delta \in SinkDeltas : Deliver(delta)

SinkNext == DeliverSinkDelta \/ DeliverDone \/ StreamEnd
SpecSink == SinkInit /\ [][SinkNext]_vars

\* the run of src/src/provider.ts over the lines with a sink that never throws
RECURSIVE P_run(_, _)
P_run(m, ls) ==
    IF ls = <<>> THEN m
    ELSE P_run(IF Head(ls).data = "[DONE]" THEN P_done(m) ELSE P_processDelta(m, Head(ls).delta),
               Tail(ls))

\* the run of src/unnamed/part_001 over the lines with a sink that never throws
RECURSIVE C_run(_, _)
C_run(m, ls) ==
    IF ls = <<>> THEN m
    ELSE IF Head(ls).data = "[DONE]" THEN C_done(m)
    ELSE C_run(C_processDelta(m, Head(ls).delta), Tail(ls))

QuietRun(ls, status, provider) ==
    LET hasDone == \E k \in 1..Len(ls) : ls[k].data = "[DONE]"
        p == P_run([p |-> ProvInit, sink |-> <<>>], ls)
        c == C_run([p |-> CoalInit, sink |-> <<>>], ls)
    IN  IF provider = "prov" THEN (IF status = "reading" THEN p ELSE P_finally(p))
        ELSE IF status = "reading" \/ hasDone THEN c ELSE C_finally(c)

\* a provider's fields without the record of the sink's failures
Fields(p) == [p EXCEPT !.sinkThrows = {}, !.sinkErrorsLogged = 0]

\* C16: whichever calls of the sink throw, the parts offered to the sink and every
\* field of the provider after each line are those of the run over the same lines in
\* which no call throws, and the lines are processed to the end of the stream.
C16_SinkFailureInvisible ==
    /\ pSink = QuietRun(lines, pStatus, "prov").sink
    /\ Fields(prov) = QuietRun(lines, pStatus, "prov").p
    /\ cSink = QuietRun(lines, cStatus, "coal").sink
    /\ Fields(coal) = QuietRun(lines, cStatus, "coal").p

\* C16 witness: the stream was read to its end although two calls of the sink threw
\* in each provider, the first of them in the middle of a fragment's parts.
C16_Witness ==
    /\ pStatus = "returned"
    /\ Len(lines) >= 3
    /\ prov.sinkThrows = {1, 3}
    /\ prov.sinkErrorsLogged = 2
    /\ coal.sinkErrorsLogged = 2
    /\ Len(pSink) > 3
    /\ Len(cSink) > 3

----------------------------------------------------------------------------
(* Data lines that do not decode: JSON.parse(data) throws *)

\* a data line whose text is not JSON
MalformedLine == [data |-> "malformed", delta |-> EmptyDelta]

\* mutant: a line that does not decode makes the provider drop its tool-call records
P_dataLine_MalformedClears(m, line) ==
    IF line.data = "[DONE]" THEN P_done(m)
    ELSE IF line.data = "delta" THEN P_processDelta(m, line.delta)
    ELSE [m EXCEPT !.p._toolCallBuffers = <<>>]

\* body of the loop over the data lines in src/src/provider.ts: the done marker, or
\* try { processDelta(JSON.parse(data)) } catch { ignore }
P_dataLine(m, line) ==
    IF line.data = "[DONE]" THEN P_done(m)
    ELSE IF line.data = "delta" THEN P_processDelta(m, line.delta)
    ELSE m

\* body of the loop over the data lines in src/unnamed/part_001
C_dataLine(m, line) ==
    IF line.data = "[DONE]" THEN C_done(m)
    ELSE IF line.data = "delta" THEN C_processDelta(m, line.delta)
    ELSE m

\* the providers read the next data line
DeliverLine(line) ==
    /\ pStatus = "reading"
    /\ Len(lines) < MaxLines
    /\ lines' = Append(lines, line)
    /\ LET m == P_dataLine([p |-> prov, sink |-> pSink], line)
       IN  prov' = m.p /\ pSink' = m.sink
    /\ IF cStatus = "reading"
       THEN LET m == C_dataLine([p |-> coal, sink |-> cSink], line)
            IN  /\ coal' = m.p
                /\ cSink' = m.sink
                /\ cStatus' = IF line.data = "[DONE]" THEN "returned" ELSE cStatus
       ELSE UNCHANGED <<coal, cSink, cStatus>>
    /\ UNCHANGED <<pStatus, kvars, openaiMessages>>

DeliverAnyLine ==
    \E line \in {DeltaLine(delta) : delta \in CancelDeltas} \cup {DoneLine, MalformedLine} :
        DeliverLine(line)

MalformedNext == DeliverAnyLine \/ StreamEnd
SpecMalformed == ProviderInit /\ [][MalformedNext]_vars

Decoded(ls) == SelectSeq(ls, LAMBDA line : line.data # "malformed")

\* C17: lines that do not decode are skipped without effect: the parts reported and
\* every field of both providers are those of the run over the same lines with the
\* undecodable ones taken out.
C17_MalformedLineSkipped ==
    /\ pSink = QuietRun(Decoded(lines), pStatus, "prov").sink
    /\ prov = QuietRun(Decoded(lines), pStatus, "prov").p
    /\ cSink = QuietRun(Decoded(lines), cStatus, "coal").sink
    /\ coal = QuietRun(Decoded(lines), cStatus, "coal").p

\* C17 witness: an undecodable line arrived between the two fragments of a tool
\* call, and the call was reported once the second fragment completed it.
C17_Witness ==
    /\ Len(lines) = 3
    /\ lines[1] = DeltaLine(ToolCallsDelta(<<Fragment(0, "c0", "f", "{\"a\":")>>))
    /\ lines[2] = MalformedLine
    /\ lines[3] = DeltaLine(ToolCallsDelta(<<Fragment(0, "c0", Undefined, "1}")>>))
    /\ Len(pSink) = 1
    /\ pSink[1].kind = "tool"
    /\ pSink[1].name = "f"

----------------------------------------------------------------------------
(* Several calls of provideLanguageModelChatResponse on one provider instance *)

MaxStreams == 2

\* the reset at the start of provideLanguageModelChatResponse in src/src/provider.ts
P_reset(p) ==
    [p EXCEPT !._toolCallBuffers = <<>>,
              !._completedToolCallIndices = {},
              !._hasEmittedAssistantText = FALSE,
              !._emittedBeginToolCallsHint = FALSE,
              !._textToolActive = Undefined,
              !._emittedTextToolCallKeys = {},
              !._emittedTextToolCallIds = {},
              !._xmlThinkActive = FALSE,
              !._xmlThinkDetectionAttempted = FALSE,
              !._currentThinkingId = 0,
              !._currentReasoningSignature = Undefined,
              !._currentResponseReasoningDetails = <<>>,
              !.calls = @ + 1]

\* mutant: the reset leaves the tag-parser flags and the text flags as they are
C_reset_KeepsFlags(p) ==
    [p EXCEPT !._toolCallBuffers = <<>>,
              !._completedToolCallIndices = {},
              !._textToolActive = Undefined,
              !._emittedTextToolCallKeys = {},
              !._emittedTextToolCallIds = {},
              !._currentThinkingId = 0,
              !._currentResponseReasoningDetails = <<>>,
              !._reasoningTextBuffer = "",
              !.calls = @ + 1]

\* the reset at the start of provideLanguageModelChatResponse in src/unnamed/part_001
C_reset(p) ==
    [p EXCEPT !._toolCallBuffers = <<>>,
              !._completedToolCallIndices = {},
              !._hasEmittedAssistantText = FALSE,
              !._emittedBeginToolCallsHint = FALSE,
              !._textToolActive = Undefined,
              !._emittedTextToolCallKeys = {},
              !._emittedTextToolCallIds = {},
              !._xmlThinkActive = FALSE,
              !._xmlThinkDetectionAttempted = FALSE,
              !._currentThinkingId = 0,
              !._currentResponseReasoningDetails = <<>>,
              !._reasoningTextBuffer = "",
              !.calls = @ + 1]

StreamDeltas ==
    { ToolCallsDelta(<<Fragment(0, "c0", "f", "{\"a\":")>>),
      ToolCallsDelta(<<Fragment(0, "c0", Undefined, "1}")>>),
      ToolCallsDelta(<<Fragment(1, Undefined, "g", "{}")>>),
      Segment("ab"),
      [ContentDelta("hi") EXCEPT !.thinking = "t"],
      ContentDelta("<think>B") }

DeliverStreamDelta == \E delta \in StreamDeltas : Deliver(delta)

\* the call has returned and the next call on the same instance starts, with its own
\* progress and its own response stream
NextStream ==
    /\ pStatus # "reading"
    /\ cStatus # "reading"
    /\ prov.calls < MaxStreams
    /\ prov' = P_reset(prov)
    /\ coal' = C_reset(coal)
    /\ lines' = <<>>
    /\ pSink' = <<>>
    /\ cSink' = <<>>
    /\ pStatus' = "reading"
    /\ cStatus' = "reading"
    /\ UNCHANGED <<kvars, openaiMessages>>

StreamsNext == DeliverStreamDelta \/ DeliverDone \/ StreamEnd \/ Cancel \/ NextStream
SpecStreams == ProviderInit /\ [][StreamsNext]_vars

\* the parts of a sink with every generated id replaced by the position of the first
\* part that carries it
CanonicalIds(sink) ==
    [k \in 1..Len(sink) |->
        IF sink[k].kind = "thinking"
        THEN [sink[k] EXCEPT !.id =
                 CHOOSE j \in 1..k : /\ sink[j].kind = "thinking" /\ sink[j].id = sink[k].id
                                     /\ \A i \in 1..(j - 1) :
                                           ~(sink[i].kind = "thinking" /\ sink[i].id = sink[k].id)]
        ELSE IF sink[k].kind = "tool" /\ Len(sink[k].callId) >= 6
                /\ SubSeq(sink[k].callId, 1, 6) = "call_#"
        THEN [sink[k] EXCEPT !.callId = "call_#"]
        ELSE sink[k]]

\* C19: whatever an earlier stream on the same instance received and however it
\* ended, the parts a stream reports are, up to the generated ids, those a new
\* instance reports for the same lines.
C19_StreamsIndependent ==
    /\ CanonicalIds(pSink) = CanonicalIds(QuietRun(lines, IF pStatus = "reading" THEN "reading" ELSE "returned", "prov").sink)
    /\ CanonicalIds(cSink) = CanonicalIds(QuietRun(lines, IF cStatus = "reading" THEN "reading" ELSE "returned", "coal").sink)

\* C19 witness: a second stream on an instance whose first stream generated thinking
\* ids has reported a tool call and thinking parts of its own.
C19_Witness ==
    /\ prov.calls = 2
    /\ Len(lines) >= 3
    /\ \E k \in 1..Len(pSink) : pSink[k].kind = "thinking" /\ pSink[k].id > 1
    /\ \E k \in 1..Len(pSink) : pSink[k].kind = "tool"
    /\ \E k \in 1..Len(cSink) : cSink[k].kind = "thinking" /\ cSink[k].id > 1

----------------------------------------------------------------------------
(* A second call on the instance while the first stream is suspended in
   await reader.read() *)

\* a second provideLanguageModelChatResponse call starts on the same instance: it
\* runs its reset while the first stream waits for its next chunk
ConcurrentCall ==
    /\ pStatus = "reading"
    /\ prov.calls < MaxStreams
    /\ prov' = P_reset(prov)
    /\ coal' = IF cStatus = "reading" THEN C_reset(coal) ELSE coal
    /\ UNCHANGED <<lines, pSink, cSink, pStatus, cStatus, kvars, openaiMessages>>

ConcurrentNext == DeliverStreamDelta \/ DeliverDone \/ StreamEnd \/ ConcurrentCall
SpecConcurrent == ProviderInit /\ [][ConcurrentNext]_vars

\* C18 as stated: a second call that starts on the same instance while the first
\* stream is suspended does not alter the state the first stream uses, so the parts
\* the first stream reports are those it reports when it runs alone.
C18_FirstStreamUndisturbed ==
    /\ pSink = QuietRun(lines, pStatus, "prov").sink
    /\ cSink = QuietRun(lines, cStatus, "coal").sink

----------------------------------------------------------------------------
(* Tool-call ids in src/src/provider.ts, checked under SpecSink *)

\* the ids upstream sent in the fragments of index i
UpstreamIds(ls, i) ==
    {FragmentsFor(ls, i)[k].id : k \in 1..Len(FragmentsFor(ls, i))} \ {Undefined}

\* C20 as stated: in src/src/provider.ts, a tool-call part whose record received an
\* id from upstream carries that id exactly, with nothing appended to it or embedded
\* in it, whether tryEmitBufferedToolCall or flushToolCallBuffers reported it.
C20_ToolCallIdIsUpstreamId ==
    \A k \in 1..Len(pSink) :
        (pSink[k].kind = "tool" /\ UpstreamIds(lines, pSink[k].key) # {})
            => pSink[k].callId \in UpstreamIds(lines, pSink[k].key)

----------------------------------------------------------------------------
(* findPartialMatch as a function, checked on the texts of SpecKimi *)

Sentinels == {SECTION_BEGIN, CALL_BEGIN, ARG_BEGIN, CALL_END}

\* the lengths k at which the last k characters of S are the first k characters of T
MatchLengths(S, T) ==
    {k \in 0..Min(Len(S), Len(T) - 1) :
        substringFrom(S, Len(S) - k) = substring(T, 0, k)}

----------------------------------------------------------------------------
(* The buffer retained in scanning mode, checked under SpecKimi *)

\* C22: whenever processChunk has returned with the parser still scanning for the
\* section-begin sentinel, the buffer is a proper prefix of that sentinel (possibly
\* empty), so at most len(sentinel)-1 characters long, and it is the longest suffix
\* of the whole text received so far that is such a prefix.
C22_ScanningBufferIsLongestPartial ==
    (kPhase = "feeding" /\ ~parser.inToolSection)
        => LET n == Len(parser.buffer)
           IN  /\ n <= Len(SECTION_BEGIN) - 1
               /\ parser.buffer = substring(SECTION_BEGIN, 0, n)
               /\ n \in MatchLengths(kFed, SECTION_BEGIN)
               /\ \A j \in MatchLengths(kFed, SECTION_BEGIN) : j <= n

\* C22 witness: after two chunks the parser is scanning and retains the eleven
\* characters of a partial sentinel that followed plain text.
C22_Witness ==
    /\ kPhase = "feeding"
    /\ ~parser.inToolSection
    /\ kFed = "a<|tool_call"
    /\ parser.buffer = "<|tool_call"
    /\ Len(kOut) = 1

----------------------------------------------------------------------------
(* The mode after a call-end sentinel, checked under SpecKimi *)

SectionSeps == {"", "\n"}

\* C23 as stated: once the text delivered is P, the section-begin sentinel and k
\* calls each followed by sep, the parser has reset the current name and arguments
\* and captures a name: what follows the last call-end is accumulated as the next
\* call's name.
C23_CallEndReturnsToName ==
    \A pre \in {"", "a<|"}, k \in 1..MaxCalls, sep \in SectionSeps :
        kFed = pre \o SECTION_BEGIN \o Calls(k, sep)
            => /\ parser.inToolCall
               /\ ~parser.inArguments
               /\ parser.currentToolName \o parser.buffer = sep
               /\ parser.currentToolArgs = ""

\* C23 as amended: once the text delivered is P, the section-begin sentinel and k
\* calls each followed by sep, the parser has emitted the k calls and awaits the
\* next call-begin sentinel: it is in the section but in no call, what followed the
\* last call-end is held in the buffer and is in no name, and the name and arguments
\* of the last call stay in place until the next call-begin sentinel resets them.
C23_CallEndReturnsToSection ==
    \A pre \in {"", "a<|"}, k \in 1..MaxCalls, sep \in SectionSeps :
        kFed = pre \o SECTION_BEGIN \o Calls(k, sep)
            => /\ parser.inToolSection
               /\ ~parser.inToolCall
               /\ ~parser.inArguments
               /\ parser.buffer = (IF kPhase = "flushed" THEN "" ELSE sep)
               /\ parser.currentToolName = CallName(k)
               /\ parser.currentToolArgs = CallArgs(k)
               /\ ToolsOf(kOut) = ExpectedTools(k)

\* C23 witness: two calls, each followed by a line break, arrived in several chunks;
\* the parser awaits a call-begin sentinel with the line break in its buffer.
C23_Witness ==
    /\ kPhase = "feeding"
    /\ kFed = "a<|" \o SECTION_BEGIN \o Calls(2, "\n")
    /\ kSplit
    /\ ~parser.inToolCall
    /\ parser.buffer = "\n"
    /\ parser.currentToolName = " g "
    /\ Len(ToolsOf(kOut)) = 2

----------------------------------------------------------------------------
(* flush() inside a tool section, checked under SpecKimi *)

\* C24: flush emits an event only when the parser is in scanning mode; called
\* after the section-begin sentinel was consumed it emits nothing.
C24_FlushSilentInSection ==
    (kPhase = "flushed" /\ parser.inToolSection) => kFlushOut = <<>>

----------------------------------------------------------------------------
(* The size of the reasoning buffer, checked under SpecReasoning *)

\* C25: in part_001 the reasoning buffer is flushed as soon as its length reaches
\* 4000: between deltas it holds fewer than 4000 characters.
C25_BufferBelowFlushLength ==
    Len(coal._reasoningTextBuffer) < REASONING_FLUSH_LENGTH

----------------------------------------------------------------------------
(* Coalescing keeps the reasoning text, checked under SpecReasoning *)

RECURSIVE AllDetailsOf(_)
\* the reasoning details of the lines, of every type, in the order the loop visits them
AllDetailsOf(ls) ==
    IF ls = <<>> THEN <<>>
    ELSE SortDetails(Head(ls).delta.reasoning_details) \o AllDetailsOf(Tail(ls))

RECURSIVE SegmentTextsUpTo(_, _)
\* the texts the loop takes from the first n details, concatenated
SegmentTextsUpTo(details, n) ==
    IF n = 0 THEN "" ELSE SegmentTextsUpTo(details, n - 1) \o C_detailText(details[n])

\* the thinking parts that come from the reasoning-detail loop and from the buffer
StructuredThinkingOf(sink) ==
    SelectSeq(sink, LAMBDA e : e.kind = "thinking"
                               /\ e.site \in {"reasoning_details", "flushReasoningBuffer"})

\* C26: in src/unnamed/part_001, once the done marker has been read, the texts of
\* the thinking parts reported from the reasoning-detail path, concatenated in sink
\* order, are the texts of all the segments read (signed, unsigned, summary,
\* encrypted), concatenated in the order they were processed: nothing is dropped,
\* duplicated or moved before earlier text.
C26_CoalescingPreservesText ==
    (\E k \in 1..Len(lines) : lines[k] = DoneLine)
        => LET details == AllDetailsOf(BeforeDone(lines))
               events == StructuredThinkingOf(cSink)
           IN  ValuesUpTo(events, Len(events)) = SegmentTextsUpTo(details, Len(details))

\* C26 witness: unsigned text, a summary, a delta whose signed segment came ahead
\* of an unsigned one of lower index, then the done marker: the buffer was flushed
\* before the summary and before the signed segment, and the sink holds all the text.
C26_Witness ==
    /\ cStatus = "returned"
    /\ Len(lines) = 4
    /\ lines[1] = DeltaLine(Segment("ab"))
    /\ lines[2] = DeltaLine(DetailsDelta(<<Detail("reasoning.summary", "sum", Undefined, 0)>>))
    /\ Len(lines[3].delta.reasoning_details) = 2
    /\ lines[4] = DoneLine
    /\ LET events == StructuredThinkingOf(cSink)
       IN  /\ Len(events) = 4
           /\ ValuesUpTo(events, 4) = "absumxY"
           /\ events[1].site = "flushReasoningBuffer"
           /\ events[2].site = "reasoning_details"

----------------------------------------------------------------------------
(* Deltas that carry several fields at once *)

BranchDeltas ==
    { [DetailsDelta(<<Detail("reasoning.text", "cd", "sigA", 0)>>) EXCEPT !.thinking = "t"],
      [DetailsDelta(<<Detail("reasoning.summary", "sum", Undefined, 0)>>)
          EXCEPT !.thinking = "t", !.content = "hi",
                 !.tool_calls = <<Fragment(0, "c0", "f", "{}")>>],
      [ThinkingDelta("t") EXCEPT !.content = "hi"],
      Segment("ab"),
      ContentDelta("hi") }


BranchNext == (\E delta \in BranchDeltas : Deliver(delta)) \/ DeliverDone \/ StreamEnd
SpecBranches == ProviderInit /\ [][BranchNext]_vars

RECURSIVE LegacyOf(_)
\* the non-empty legacy thinking fields of the deltas of the lines, in order
LegacyOf(ls) ==
    IF ls = <<>> THEN <<>>
    ELSE (IF Head(ls).data = "delta" /\ Head(ls).delta.thinking \notin {Undefined, ""}
          THEN <<Head(ls).delta.thinking>> ELSE <<>>) \o LegacyOf(Tail(ls))

RECURSIVE LegacyThinkingOf(_)
\* the values of the thinking parts reported for a legacy thinking field
LegacyThinkingOf(sink) ==
    IF sink = <<>> THEN <<>>
    ELSE (IF Head(sink).kind = "thinking" /\ Head(sink).site = "thinking"
          THEN <<Head(sink).value>> ELSE <<>>) \o LegacyThinkingOf(Tail(sink))

\* C27: every applicable branch of a delta executes: each delta with a non-empty
\* legacy thinking field yields a thinking part for that field, also when the delta
\* carries a non-empty reasoning-detail list, in src/src/provider.ts and in
\* src/unnamed/part_001 (there for the deltas read before the done marker).
C27_LegacyThinkingAlwaysReported ==
    /\ LegacyThinkingOf(pSink) = LegacyOf(lines)
    /\ LegacyThinkingOf(cSink) = LegacyOf(BeforeDone(lines))

----------------------------------------------------------------------------
(* The separator before tool calls in src/src/provider.ts, checked under SpecTools *)

\* the positions of the sink at which the separator was reported
SeparatorPositions == {k \in 1..Len(pSink) : pSink[k].site = "beginToolCallsHint"}

\* at most one separator, and a text part before it
SeparatorOnceAfterText ==
    /\ Cardinality(SeparatorPositions) <= 1
    /\ \A k \in SeparatorPositions :
          /\ pSink[k] = TextPart(" ", "beginToolCallsHint")
          /\ \E j \in 1..(k - 1) : pSink[j].kind = "text"

\* no tool-call part before a separator
SeparatorBeforeEveryToolCall ==
    \A k \in SeparatorPositions : \A j \in 1..Len(pSink) : pSink[j].kind = "tool" => k < j

\* C28: in src/src/provider.ts the separator " " is reported at most once per stream,
\* only after some text part was reported, and when it is reported it precedes every
\* tool-call part of the stream, whatever the interleaving of content and tool calls.
C28_SeparatorOncePrecedesTools ==
    SeparatorOnceAfterText /\ SeparatorBeforeEveryToolCall

----------------------------------------------------------------------------
(* The finish marker in src/src/provider.ts, checked under SpecTools *)

\* C29: in src/src/provider.ts a delta with the finish marker "tool_calls" or "stop"
\* force-flushes all open tool-call records during that delta: a record whose
\* arguments parse is reported, one whose arguments do not parse is removed without
\* a part, each independently of the others, so that no record is open after it.
C29_FinishMarkerEmptiesBuffers ==
    (/\ Len(lines) > 0
     /\ lines[Len(lines)].data = "delta"
     /\ lines[Len(lines)].delta.finish_reason \in {"tool_calls", "stop"})
        => prov._toolCallBuffers = <<>>

----------------------------------------------------------------------------
(* Name and argument pieces in src/src/provider.ts, checked under SpecTools *)

RECURSIVE NameConcat(_, _)
\* the function-name pieces of the first j fragments, concatenated
NameConcat(frs, j) ==
    IF j = 0 THEN ""
    ELSE NameConcat(frs, j - 1) \o (IF frs[j].name = Undefined THEN "" ELSE frs[j].name)

\* the argument text of a part reported by tryEmitBufferedToolCall is the
\* concatenation of the argument pieces received for its index up to some fragment
EmittedArgumentsAppended ==
    \A i \in Indices :
        LET frs == FragmentsFor(lines, i)
            evs == ToolEventsFor(pSink, i)
        IN  (Len(evs) = 1 /\ evs[1].site = "tryEmitBufferedToolCall")
                => \E j \in 1..Len(frs) : evs[1].text = ArgsConcat(frs, j)

\* C30: in src/src/provider.ts the pieces of a record are appended, never replaced:
\* the name of a tool-call part reported by tryEmitBufferedToolCall is the
\* concatenation of the name pieces, and its parsed text the concatenation of the
\* argument pieces, of the fragments received for its index up to the one that
\* completed it.
C30_PiecesAppended ==
    \A i \in Indices :
        LET frs == FragmentsFor(lines, i)
            evs == ToolEventsFor(pSink, i)
        IN  (Len(evs) = 1 /\ evs[1].site = "tryEmitBufferedToolCall")
                => \E j \in 1..Len(frs) : /\ evs[1].name = NameConcat(frs, j)
                                          /\ evs[1].text = ArgsConcat(frs, j)

----------------------------------------------------------------------------
(* Start tags late in the stream, checked under SpecContent *)

\* C31: a content fragment that holds the start tag <think>, read while no tag span
\* is open, opens a thinking span under a newly generated correlation id, wherever
\* in the stream it arrives, also after a content fragment that held no start tag;
\* in src/src/provider.ts and in src/unnamed/part_001.
C31_EveryStartTagOpensSpan ==
    [][\A d \in ContentDeltas :
          (/\ pStatus = "reading"
           /\ lines' = Append(lines, DeltaLine(d))
           /\ indexOf(d.content, THINK_START) # -1)
              => /\ ~prov._xmlThinkActive => prov'.idsGenerated > prov.idsGenerated
                 /\ (cStatus = "reading" /\ ~coal._xmlThinkActive)
                        => coal'.idsGenerated > coal.idsGenerated]_vars

----------------------------------------------------------------------------
(* Closing of thinking spans in src/unnamed/part_001, checked under SpecContent *)

\* the correlation ids under which a sink received thinking text
OpenedIds(sink) == {sink[k].id : k \in {j \in 1..Len(sink) : sink[j].kind = "thinking"
                                                               /\ sink[j].value # ""}}

\* the correlation ids for which a sink received the empty closing part
ClosedIds(sink) == {sink[k].id : k \in {j \in 1..Len(sink) : sink[j].kind = "thinking"
                                                               /\ sink[j].value = ""}}

\* C32: in src/unnamed/part_001, when processStreamingResponse has returned, every
\* correlation id under which a thinking part was reported has received an empty
\* thinking part, whichever way the stream ended and whatever opened the spans.
C32_EverySpanClosed ==
    cStatus # "reading" => OpenedIds(cSink) \subseteq ClosedIds(cSink)

----------------------------------------------------------------------------
(* The fields after the stream, checked under SpecReasoning *)

\* the per-stream buffers and flags both providers have
StreamFields(p) ==
    [toolCallBuffers |-> p._toolCallBuffers,
     completed |-> p._completedToolCallIndices,
     emittedKeys |-> p._emittedTextToolCallKeys,
     emittedIds |-> p._emittedTextToolCallIds,
     hasText |-> p._hasEmittedAssistantText,
     hint |-> p._emittedBeginToolCallsHint,
     textTool |-> p._textToolActive,
     xmlActive |-> p._xmlThinkActive,
     xmlAttempted |-> p._xmlThinkDetectionAttempted,
     thinkingId |-> p._currentThinkingId,
     details |-> p._currentResponseReasoningDetails]

\* src/src/provider.ts holds its initial values once the stream is over
P_FieldsCleared ==
    pStatus # "reading"
        => /\ StreamFields(prov) = StreamFields(ProvInit)
           /\ prov._currentReasoningSignature = ProvInit._currentReasoningSignature

\* src/unnamed/part_001 holds its initial values once the stream is over
C_FieldsCleared ==
    cStatus # "reading"
        => /\ StreamFields(coal) = StreamFields(CoalInit)
           /\ coal._reasoningTextBuffer = CoalInit._reasoningTextBuffer

\* C33: after processStreamingResponse has terminated, every per-stream buffer and
\* flag of the provider holds its initial value, in src/src/provider.ts and in
\* src/unnamed/part_001.
C33_FieldsInitialAfterStream ==
    P_FieldsCleared /\ C_FieldsCleared

----------------------------------------------------------------------------
(* The id-keyed tool-call records of src/unnamed/part_001, checked under SpecTools *)

\* the id upstream gives to the call at a position
UpstreamIdAt(i) == IF i = 0 THEN "c0" ELSE "c1"

\* C34: in src/unnamed/part_001 the fragments of a call that carry no id are
\* accumulated into the record its first fragment opened: when the call is first
\* reported, its name and its argument text are the concatenations of all the name
\* pieces and all the argument pieces received for its position.
C34_IndexOnlyFragmentsAccumulated ==
    [][\A i \in Indices :
          LET frs == FragmentsFor(BeforeDone(lines'), i)
              old == ToolEventsFor(cSink, UpstreamIdAt(i))
              new == ToolEventsFor(cSink', UpstreamIdAt(i))
          IN  (Len(old) = 0 /\ Len(new) = 1)
                  => /\ new[1].name = NameConcat(frs, Len(frs))
                     /\ new[1].text = ArgsConcat(frs, Len(frs))]_vars


\* C35: in src/unnamed/part_001 at most one tool-call part is reported per tool-call
\* id in a stream: fragments that arrive for an id after a forced flush reported it
\* cause no second part at a later flush.
C35_OneEventPerId ==
    \A i \in Indices : Len(ToolEventsFor(cSink, UpstreamIdAt(i))) <= 1

----------------------------------------------------------------------------
(* The parser stays in the tool section, checked under SpecKimi *)

\* C36: once the section-begin sentinel has been consumed, every later processChunk
\* call leaves the parser in the section and adds tool-call events only to the
\* output, whatever the chunk holds.
C36_NeverBackToScanning ==
    [][(parser.inToolSection /\ kPhase' = "feeding")
          => /\ parser'.inToolSection
             /\ Len(kOut') >= Len(kOut)
             /\ SubSeq(kOut', 1, Len(kOut)) = kOut
             /\ \A k \in (Len(kOut) + 1)..Len(kOut') : kOut'[k].type = "tool"]_vars

\* C36 witness: a second section-begin sentinel followed the first; it was emitted
\* nowhere and the parser still awaits a call-begin sentinel.
C36_Witness ==
    /\ kPhase = "feeding"
    /\ kFed = SECTION_BEGIN \o SECTION_BEGIN
    /\ parser.inToolSection
    /\ ~parser.inToolCall
    /\ parser.buffer = SECTION_BEGIN
    /\ kOut = <<>>

----------------------------------------------------------------------------
(* Incomplete calls are never emitted, checked under SpecKimi *)

RECURSIVE CompleteCallsIn(_)
\* the number of calls of a section text that reach their call-end sentinel: a
\* call-begin, then an argument-begin, then a call-end sentinel, repeatedly
CompleteCallsIn(text) ==
    LET c == indexOf(text, CALL_BEGIN)
        afterC == substringFrom(text, c + Len(CALL_BEGIN))
        a == indexOf(afterC, ARG_BEGIN)
        afterA == substringFrom(afterC, a + Len(ARG_BEGIN))
        e == indexOf(afterA, CALL_END)
    IN  IF c = -1 THEN 0
        ELSE IF a = -1 THEN 0
        ELSE IF e = -1 THEN 0
        ELSE 1 + CompleteCallsIn(substringFrom(afterA, e + Len(CALL_END)))

\* the calls completed in the text delivered so far
CompleteCalls ==
    LET s == indexOf(kFed, SECTION_BEGIN)
    IN  IF s = -1 THEN 0 ELSE CompleteCallsIn(substringFrom(kFed, s + Len(SECTION_BEGIN)))

\* a text occurs in an event
OccursIn(text, e) ==
    IF e.type = "tool" THEN indexOf(e.name, text) # -1 \/ indexOf(e.arguments, text) # -1
    ELSE indexOf(e.content, text) # -1

----------------------------------------------------------------------------
(* Correlation ids of thinking spans, checked under SpecContent *)

\* no thinking text under an id after the empty part that closed it
ClosedIdNeverReused(sink) ==
    \A j \in 1..Len(sink) : \A k \in (j + 1)..Len(sink) :
        (/\ sink[j].kind = "thinking" /\ sink[j].value = ""
         /\ sink[k].kind = "thinking" /\ sink[k].value # "")
            => sink[k].id # sink[j].id

\* at every point of the sink at most one id has received text and no closing part
AtMostOneOpenId(sink) ==
    \A n \in 0..Len(sink) :
        LET prefix == SubSeq(sink, 1, n)
        IN  Cardinality(OpenedIds(prefix) \ ClosedIds(prefix)) <= 1

\* C38: a closed thinking span is never reused: after the empty thinking part of a
\* correlation id no thinking text carries that id, later thinking text comes under
\* a newly generated id, and at most one correlation id is open at any time; in
\* src/unnamed/part_001 and in src/src/provider.ts.
C38_ClosedSpanNeverReused ==
    /\ ClosedIdNeverReused(cSink) /\ AtMostOneOpenId(cSink)
    /\ ClosedIdNeverReused(pSink) /\ AtMostOneOpenId(pSink)

----------------------------------------------------------------------------
(* The signature carried in the tool-call id and its decoding on the next
   request (src/src/provider.ts) *)

SIG_SEPARATOR == "::gemini_sig::"

includes(s, t) == indexOf(s, t) # -1

RECURSIVE split(_, _)
\* String.prototype.split with a non-empty separator
split(s, sep) ==
    LET i == indexOf(s, sep)
    IN  IF i = -1 THEN <<s>>
        ELSE <<substring(s, 0, i)>> \o split(substringFrom(s, i + Len(sep)), sep)

\* the history of the next request: for every tool-call part the response reported,
\* an assistant tool call and a tool result that carry the part's callId
HistoryOf(sink) ==
    LET parts == SelectSeq(sink, LAMBDA e : e.kind = "tool")
    IN  [n \in 1..(2 * Len(parts)) |->
            IF n % 2 = 1
            THEN [role |-> "assistant", id |-> parts[(n + 1) \div 2].callId,
                  thought_signature |-> Undefined, originalId |-> parts[(n + 1) \div 2].callId]
            ELSE [role |-> "tool", id |-> parts[n \div 2].callId,
                  thought_signature |-> Undefined, originalId |-> parts[n \div 2].callId]]

\* the loop body over openaiMessages: an assistant tool call (id) or a tool result
\* (tool_call_id, held in id)
DecodeSignature(msg) ==
    LET pieces == split(msg.id, SIG_SEPARATOR)
        realId == pieces[1]
        signature == pieces[2]
    IN  IF ~includes(msg.id, SIG_SEPARATOR) THEN msg
        ELSE IF msg.role = "assistant"
        THEN IF realId # "" /\ signature # ""
             THEN [msg EXCEPT !.id = realId, !.thought_signature = signature]
             ELSE msg
        ELSE IF realId # "" THEN [msg EXCEPT !.id = realId] ELSE msg

SignatureDeltas ==
    { DetailsDelta(<<Detail("reasoning.text", "cd", "sigA", 0)>>),
      DetailsDelta(<<Detail("reasoning.text", "cd", "x::gemini_sig::y", 0)>>),
      ToolCallsDelta(<<Fragment(0, "c0", "f", "{}")>>),
      ToolCallsDelta(<<Fragment(1, "a::gemini_sig::b", "g", "{}")>>),
      ToolCallsDelta(<<[Fragment(1, "c1", "g", "{}") EXCEPT !.thought_signature = "sigT"]>>) }


\* the next provideLanguageModelChatResponse call: the reset, then the messages of
\* the history with the signatures decoded from the ids
NextRequest ==
    /\ pStatus # "reading"
    /\ cStatus # "reading"
    /\ prov.calls < MaxStreams
    /\ openaiMessages' = [n \in 1..Len(HistoryOf(pSink)) |-> DecodeSignature(HistoryOf(pSink)[n])]
    /\ prov' = P_reset(prov)
    /\ coal' = C_reset(coal)
    /\ lines' = <<>>
    /\ pSink' = <<>>
    /\ cSink' = <<>>
    /\ pStatus' = "reading"
    /\ cStatus' = "reading"
    /\ UNCHANGED kvars

SignatureNext == (\E delta \in SignatureDeltas : Deliver(delta)) \/ DeliverDone \/ StreamEnd \/ NextRequest
SpecSignature == ProviderInit /\ [][SignatureNext]_vars

UpstreamIdValues == {"c0", "c1", "a::gemini_sig::b"}
SignatureValues == {"sigA", "sigT", "x::gemini_sig::y"}

\* the round trip for the ids and signatures of a set
RoundTrips(ids, signatures) ==
    \A n \in 1..Len(openaiMessages) : \A id \in ids, signature \in signatures :
        openaiMessages[n].originalId = id \o SIG_SEPARATOR \o signature
            => /\ openaiMessages[n].id = id
               /\ openaiMessages[n].role = "assistant"
                     => openaiMessages[n].thought_signature = signature

\* C39: in src/src/provider.ts the signature embedded in a tool-call id round-trips:
\* an id emitted as id + "::gemini_sig::" + signature is decoded on the next request
\* to exactly (id, signature) for the assistant tool call and to exactly id for the
\* tool result, also when the id or the signature holds the separator text.
C39_SignatureRoundTrips ==
    RoundTrips(UpstreamIdValues, SignatureValues)

\* the round trip for ids and signatures that do not hold the separator text
RoundTripsWithoutSeparator ==
    RoundTrips({id \in UpstreamIdValues : ~includes(id, SIG_SEPARATOR)},
               {s \in SignatureValues : ~includes(s, SIG_SEPARATOR)})

----------------------------------------------------------------------------
(* The name-and-arguments key of src/unnamed/part_001, checked under SpecTools *)

\* C40: in src/unnamed/part_001 two tool calls of one stream with different ids are
\* both reported, also when they have the same function name and the same parsed
\* arguments: once the records have been flushed, every id that brought a name has
\* a tool-call part.
C40_SameCallDifferentIdsBothEmitted ==
    (/\ Len(lines) > 0
     /\ \/ lines[Len(lines)] = DoneLine
        \/ lines[Len(lines)].delta.finish_reason \in {"tool_calls", "stop"})
        => \A i \in Indices :
              (\E k \in 1..Len(FragmentsFor(BeforeDone(lines), i)) :
                    /\ FragmentsFor(BeforeDone(lines), i)[k].id = UpstreamIdAt(i)
                    /\ FragmentsFor(BeforeDone(lines), i)[k].name \notin {Undefined, ""})
                  => Len(ToolEventsFor(cSink, UpstreamIdAt(i))) >= 1

=============================================================================
